---------------------------- MODULE Spec2Model ----------------------------
(***************************************************************************)
(* A model of the nginx-flow core: the destructive fix engine              *)
(* (AutoFixService, the audit rules and applyAllFixes), the directive      *)
(* cleaner (ConfigCleaner) and the configuration parser (nginxParser).     *)
(*                                                                         *)
(* Texts (customDirectives, parser input) are sequences of one-character   *)
(* strings, so that the regular expressions and the tokenizer of the       *)
(* source act on them character by character, as the code does.  Texts     *)
(* hold no carriage return: the optional group (\r?\n)? of the source's    *)
(* patterns is then the optional character \n.                             *)
(***************************************************************************)
EXTENDS Integers, Sequences, FiniteSets, TLC

VARIABLES
    config,      \* the NginxConfig the fix engine works on (currentConfig)
    uuid,        \* number of identifiers uuidv4() has handed out
    pc,          \* position of applyAllFixes: "idle", "loop"
    hasChanges,  \* applyAllFixes' loop flag
    iterations,  \* applyAllFixes' loop counter
    last,        \* the last finished operation: its name, target, input config
    ops,         \* number of operations started
    input,       \* parseNginxConfig: the text given to it (configString)
    lex,         \* tokenize: its pos (counted from 1), line, column and tokens
    tokens,      \* Parser.tokens, once tokenize has returned
    pos,         \* Parser.pos (an index into tokens, counted from 1)
    ast,         \* parseRoot's directives and blocks collected so far
    status,      \* parseNginxConfig: "lex", "parse", "ok", "error", or "off"
    rootIters,   \* iterations parseRoot's while loop has executed
    thrown,      \* the ParseError thrown, as a sequence of length 0 or 1
    parsed,      \* the NginxConfig parseNginxConfig returns
    requestPath, \* matchLocation: the request path given to it
    locations,   \* matchLocation: the location list given to it
    matchResult, \* matchLocation: what it returned, as a sequence of length 0 or 1
    cleanerVia,  \* the cleaning operation under call: its name, or "off"
    cleanerKey,  \* the directive name (or header name) passed to it
    cleanerTexts, \* the text given first and the text after each call
    fixUpdate,   \* applyFix: what it returned, as a sequence of length 0 or 1
    auditResult, \* runAudit: what it returned, as a sequence of length 0 or 1
    selectedNodeId,   \* ConfigProvider: the selected node's id, or null
    selectedNodeType  \* ConfigProvider: "server", "location", "upstream" or null

fixVars == <<config, uuid, pc, hasChanges, iterations, last, ops>>
parseVars == <<input, lex, tokens, pos, ast, status, rootIters, thrown, parsed>>
matchVars == <<requestPath, locations, matchResult>>
vars == <<config, uuid, pc, hasChanges, iterations, last, ops,
          input, lex, tokens, pos, ast, status, rootIters, thrown, parsed,
          requestPath, locations, matchResult, cleanerVia, cleanerKey, cleanerTexts,
          fixUpdate, auditResult, selectedNodeId, selectedNodeType>>
storeVars == <<auditResult, selectedNodeId, selectedNodeType>>
cleanerVars == <<cleanerVia, cleanerKey, cleanerTexts, fixUpdate>>

\* matchLocation has not been called.
MatchOff == requestPath = <<>> /\ locations = <<>> /\ matchResult = <<>>

\* ConfigCleaner has not been called.
CleanerOff ==
    /\ cleanerVia = "off" /\ cleanerKey = <<>> /\ cleanerTexts = <<>>
    /\ fixUpdate = <<>>

\* runAudit has not been called and no node is selected.
StoreOff == auditResult = <<>> /\ selectedNodeId = "null" /\ selectedNodeType = "null"

----------------------------------------------------------------------------
(* Characters and strings                                                  *)

Whitespace == {" ", "\t", "\n"}

\* String.prototype.toLowerCase on one character (the `i` flag of a RegExp).
LowerMap ==
             ("A" :> "a") @@ ("B" :> "b") @@ ("C" :> "c") @@ ("D" :> "d") @@
             ("E" :> "e") @@ ("F" :> "f") @@ ("G" :> "g") @@ ("H" :> "h") @@
             ("I" :> "i") @@ ("J" :> "j") @@ ("K" :> "k") @@ ("L" :> "l") @@
             ("M" :> "m") @@ ("N" :> "n") @@ ("O" :> "o") @@ ("P" :> "p") @@
             ("Q" :> "q") @@ ("R" :> "r") @@ ("S" :> "s") @@ ("T" :> "t") @@
             ("U" :> "u") @@ ("V" :> "v") @@ ("W" :> "w") @@ ("X" :> "x") @@
             ("Y" :> "y") @@ ("Z" :> "z")
Lower(c) == IF c \in DOMAIN LowerMap THEN LowerMap[c] ELSE c

\* F applied to the value of v, which is computed once.
Bind(v, F(_)) == CHOOSE r \in {F(x) : x \in {v}} : TRUE

\* s.slice(i - 1) for a 1-based i.
Drop(s, i) == SubSeq(s, i, Len(s))

\* The value of a sequence-valued function as a sequence, computed once.
Force(f, n) == IF n = 0 THEN <<>> ELSE SubSeq(f, 1, n)

Min(set) == CHOOSE x \in set : \A y \in set : x <= y
Max(set) == CHOOSE x \in set : \A y \in set : x >= y

TrimStart(s) ==
    LET k == CHOOSE n \in 0..Len(s) :
                 /\ \A j \in 1..n : s[j] \in Whitespace
                 /\ (n = Len(s) \/ s[n + 1] \notin Whitespace)
    IN  SubSeq(s, k + 1, Len(s))

TrimEnd(s) ==
    LET k == CHOOSE n \in 0..Len(s) :
                 /\ \A j \in (n + 1)..Len(s) : s[j] \in Whitespace
                 /\ (n = 0 \/ s[n] \notin Whitespace)
    IN  SubSeq(s, 1, k)

\* String.prototype.trim
Trim(s) == TrimEnd(TrimStart(s))

\* Array.prototype.join over strings
RECURSIVE Join(_, _)
Join(parts, sep) ==
    IF parts = <<>> THEN <<>>
    ELSE IF Len(parts) = 1 THEN parts[1]
    ELSE parts[1] \o sep \o Join(Tail(parts), sep)

\* String.prototype.split on a single character
RECURSIVE Split(_, _)
Split(s, c) ==
    IF \E i \in 1..Len(s) : s[i] = c
    THEN LET i == CHOOSE j \in 1..Len(s) :
                      s[j] = c /\ \A k \in 1..(j - 1) : s[k] # c
         IN  <<SubSeq(s, 1, i - 1)>> \o Split(Drop(s, i + 1), c)
    ELSE <<s>>

----------------------------------------------------------------------------
(* Regular expressions.  A pattern is a sequence of items: a line anchor   *)
(* (^ or $ under the m flag) or a character class with a repetition        *)
(* {min,max} (max < 0: unbounded), greedy or lazy.  MatchFrom follows the  *)
(* backtracking order of a JavaScript RegExp.                              *)

Bol == [t |-> "bol", set |-> {}, neg |-> FALSE, str |-> <<>>, ci |-> FALSE,
        min |-> 0, max |-> 0, greedy |-> TRUE]
Eol == [t |-> "eol", set |-> {}, neg |-> FALSE, str |-> <<>>, ci |-> FALSE,
        min |-> 0, max |-> 0, greedy |-> TRUE]
Cls(set, neg, min, max) ==
    [t |-> "c", set |-> set, neg |-> neg, str |-> <<>>, ci |-> FALSE,
     min |-> min, max |-> max, greedy |-> TRUE]
Ws(min) == Cls(Whitespace, FALSE, min, -1)
\* a literal string, matched case-insensitively when ci (the i flag)
Lit(str, ci) ==
    <<[t |-> "lit", set |-> {}, neg |-> FALSE,
       str |-> [j \in 1..Len(str) |-> IF ci THEN Lower(str[j]) ELSE str[j]],
       ci |-> ci, min |-> 1, max |-> 1, greedy |-> TRUE]>>

ItemMatches(it, c) == (c \in it.set) # it.neg

\* The literal of the item stands at index i of s.
LitAt(it, s, i) ==
    /\ i + Len(it.str) - 1 <= Len(s)
    /\ \A j \in 1..Len(it.str) :
           (IF it.ci THEN Lower(s[i + j - 1]) ELSE s[i + j - 1]) = it.str[j]

\* The longest run of characters from index i that the item accepts.
RunLen(it, s, i) ==
    LET room == Len(s) - i + 1
        cap == IF it.max < 0 \/ room < it.max THEN room ELSE it.max
    IN  CHOOSE n \in 0..cap :
            /\ \A j \in 0..(n - 1) : ItemMatches(it, s[i + j])
            /\ (n = cap \/ ~ItemMatches(it, s[i + n]))

\* The end (index of the first character after the match) of the match of
\* items k.. of re that starts at index i of s, or 0 when there is none.
\* TryCount takes the repetition counts of item k in the order of the
\* RegExp's backtracking: longest first when greedy, shortest first when lazy.
RECURSIVE MatchFrom(_, _, _, _)
RECURSIVE TryCount(_, _, _, _, _)
MatchFrom(re, k, s, i) ==
    IF k > Len(re) THEN i
    ELSE CASE re[k].t = "bol" ->
                IF i = 1 \/ s[i - 1] = "\n" THEN MatchFrom(re, k + 1, s, i) ELSE 0
           [] re[k].t = "eol" ->
                IF i = Len(s) + 1 \/ s[i] = "\n" THEN MatchFrom(re, k + 1, s, i) ELSE 0
           [] re[k].t = "lit" ->
                IF LitAt(re[k], s, i)
                THEN MatchFrom(re, k + 1, s, i + Len(re[k].str)) ELSE 0
           [] re[k].min = re[k].max ->
                IF RunLen(re[k], s, i) < re[k].min THEN 0
                ELSE MatchFrom(re, k + 1, s, i + re[k].min)
           [] OTHER ->
                Bind(RunLen(re[k], s, i),
                     LAMBDA n : IF n < re[k].min THEN 0 ELSE TryCount(re, k, s, i, n))
TryCount(re, k, s, i, n) ==
    Bind(Force([c \in 1..(n - re[k].min + 1) |->
                    MatchFrom(re, k + 1, s, i + re[k].min + c - 1)],
               n - re[k].min + 1),
         LAMBDA ends :
             LET ok == {c \in 1..Len(ends) : ends[c] # 0}
             IN  IF ok = {} THEN 0
                 ELSE ends[IF re[k].greedy THEN Max(ok) ELSE Min(ok)])

\* RegExp.prototype.test
Test(re, s) == \E i \in 1..(Len(s) + 1) : MatchFrom(re, 1, s, i) # 0

\* String.prototype.replace(re, rep) with the g flag: ends[j] is the end of
\* the match that starts at j; the scan resumes after each match.
RECURSIVE Rebuild(_, _, _, _)
Rebuild(ends, s, rep, i) ==
    LET starts == {j \in i..Len(s) : ends[j] > j}
    IN  IF starts = {} THEN SubSeq(s, i, Len(s))
        ELSE SubSeq(s, i, Min(starts) - 1) \o rep
                 \o Rebuild(ends, s, rep, ends[Min(starts)])
ReplaceAll(re, s, rep) ==
    Bind(Force([j \in 1..Len(s) |-> MatchFrom(re, 1, s, j)], Len(s)),
         LAMBDA ends : Rebuild(ends, s, rep, 1))

----------------------------------------------------------------------------
(* The string literals of the fix engine, as character sequences.          *)
(* hiddenComment stands for the (non-ASCII) comment text the hidden-files  *)
(* fix writes into its new location; no modelled code reads it.            *)

S ==
    [
     user |-> <<"u","s","e","r">>,
     server_tokens |-> <<"s","e","r","v","e","r","_","t","o","k","e","n","s">>,
     ssl_protocols |-> <<"s","s","l","_","p","r","o","t","o","c","o","l","s">>,
     autoindex |-> <<"a","u","t","o","i","n","d","e","x">>,
     worker_processes |-> <<"w","o","r","k","e","r","_","p","r","o","c","e","s","s","e","s">>,
     sendfile |-> <<"s","e","n","d","f","i","l","e">>,
     tcp_nodelay |-> <<"t","c","p","_","n","o","d","e","l","a","y">>,
     keepalive_timeout |-> <<"k","e","e","p","a","l","i","v","e","_","t","i","m","e","o","u","t">>,
     gzip |-> <<"g","z","i","p">>,
     gzip_comp_level |-> <<"g","z","i","p","_","c","o","m","p","_","l","e","v","e","l">>,
     gzip_types |-> <<"g","z","i","p","_","t","y","p","e","s">>,
     gzip_min_length |-> <<"g","z","i","p","_","m","i","n","_","l","e","n","g","t","h">>,
     add_header_ |-> <<"a","d","d","_","h","e","a","d","e","r"," ">>,
     proxy_set_header_ |-> <<"p","r","o","x","y","_","s","e","t","_","h","e","a","d","e","r"," ">>,
     add_header |-> <<"a","d","d","_","h","e","a","d","e","r">>,
     proxy_set_header |-> <<"p","r","o","x","y","_","s","e","t","_","h","e","a","d","e","r">>,
     return |-> <<"r","e","t","u","r","n">>,
     thirty |-> <<"3","0">>,
     redirect |-> <<"r","e","t","u","r","n"," ","3","0","1"," ","h","t","t","p","s",":","/","/","$","h","o","s","t","$","r","e","q","u","e","s","t","_","u","r","i",";">>,
     httpRedirectSuffix |-> <<" ","(","H","T","T","P"," ","R","e","d","i","r","e","c","t",")">>,
     XFrameOptions |-> <<"X","-","F","r","a","m","e","-","O","p","t","i","o","n","s">>,
     SAMEORIGIN |-> <<"S","A","M","E","O","R","I","G","I","N">>,
     XContentTypeOptions |-> <<"X","-","C","o","n","t","e","n","t","-","T","y","p","e","-","O","p","t","i","o","n","s">>,
     nosniff |-> <<"n","o","s","n","i","f","f">>,
     StrictTransportSecurity |-> <<"S","t","r","i","c","t","-","T","r","a","n","s","p","o","r","t","-","S","e","c","u","r","i","t","y">>,
     hstsValue |-> <<"m","a","x","-","a","g","e","=","3","1","5","3","6","0","0","0",";"," ","i","n","c","l","u","d","e","S","u","b","D","o","m","a","i","n","s">>,
     always |-> <<" ","a","l","w","a","y","s">>,
     hiddenPath |-> <<"/","\\",".">>,
     backslashDot |-> <<"\\",".">>,
     tildeHidden |-> <<"~"," ","/","\\",".">>,
     hiddenComment |-> <<"#"," ","h","i","d","d","e","n"," ","f","i","l","e","s"," ","(",".","g","i","t",","," ",".","e","n","v",")">>
    ]

\* String.prototype.startsWith
StartsWith(s, p) == Len(p) <= Len(s) /\ SubSeq(s, 1, Len(p)) = p

\* String.prototype.includes
Includes(s, sub) ==
    \E i \in 1..(Len(s) - Len(sub) + 1) : SubSeq(s, i, i + Len(sub) - 1) = sub

Semi == Cls({";"}, FALSE, 0, 1)
NotSemi == Cls({";"}, TRUE, 1, -1)
Quote == Cls({"'", "\""}, FALSE, 0, 1)

----------------------------------------------------------------------------
(* AutoFixService.ts: the regex cleaner                                    *)

\* new RegExp(`^\\s*${key}\\s+[^;]+;?(\\r?\\n)?`, 'gm')
cleanRegexPattern(key) ==
    <<Bol, Ws(0)>> \o Lit(key, FALSE)
        \o <<Ws(1), NotSemi, Semi, Cls({"\n"}, FALSE, 0, 1)>>

\* .replace(/\n{3,}/g, '\n\n').trim()
CollapseAndTrim(text) ==
    Trim(ReplaceAll(<<Cls({"\n"}, FALSE, 3, -1)>>, text, <<"\n", "\n">>))

cleanRegex(text, key) ==
    IF Trim(text) = <<>> THEN <<>>
    ELSE CollapseAndTrim(ReplaceAll(cleanRegexPattern(key), text, <<>>))

\* AutoFixService.cleanDirectives: the targets in the source's fixed order.
RECURSIVE cleanDirectivesFrom(_, _, _)
cleanDirectivesFrom(text, targets, order) ==
    IF order = <<>> THEN text
    ELSE Bind(IF Head(order) \in targets THEN cleanRegex(text, Head(order)) ELSE text,
              LAMBDA t : cleanDirectivesFrom(t, targets, Tail(order)))
cleanDirectives(configText, targets) ==
    cleanDirectivesFrom(configText, targets,
        <<S.user, S.server_tokens, S.ssl_protocols, S.autoindex>>)

----------------------------------------------------------------------------
(* fixService.ts: ConfigCleaner                                            *)

\* The remaining keys of DIRECTIVE_PATTERNS.
D ==
    [
     error_log |-> <<"e","r","r","o","r","_","l","o","g">>,
     pid |-> <<"p","i","d">>,
     ssl_ciphers |-> <<"s","s","l","_","c","i","p","h","e","r","s">>,
     ssl_prefer_server_ciphers |-> <<"s","s","l","_","p","r","e","f","e","r","_","s","e","r","v","e","r","_","c","i","p","h","e","r","s">>,
     ssl_certificate |-> <<"s","s","l","_","c","e","r","t","i","f","i","c","a","t","e">>,
     ssl_certificate_key |-> <<"s","s","l","_","c","e","r","t","i","f","i","c","a","t","e","_","k","e","y">>,
     tcp_nopush |-> <<"t","c","p","_","n","o","p","u","s","h">>,
     client_max_body_size |-> <<"c","l","i","e","n","t","_","m","a","x","_","b","o","d","y","_","s","i","z","e">>,
     root |-> <<"r","o","o","t">>,
     index |-> <<"i","n","d","e","x">>,
     try_files |-> <<"t","r","y","_","f","i","l","e","s">>,
     alias |-> <<"a","l","i","a","s">>,
     proxy_pass |-> <<"p","r","o","x","y","_","p","a","s","s">>,
     proxy_http_version |-> <<"p","r","o","x","y","_","h","t","t","p","_","v","e","r","s","i","o","n">>,
     rewrite |-> <<"r","e","w","r","i","t","e">>
    ]

\* The keys of DIRECTIVE_PATTERNS.
DIRECTIVE_PATTERNS ==
    {S.user, S.worker_processes, D.error_log, D.pid, S.autoindex, S.server_tokens,
     S.ssl_protocols, D.ssl_ciphers, D.ssl_prefer_server_ciphers, D.ssl_certificate,
     D.ssl_certificate_key, S.sendfile, D.tcp_nopush, S.tcp_nodelay,
     S.keepalive_timeout, D.client_max_body_size, S.gzip, S.gzip_comp_level,
     S.gzip_min_length, S.gzip_types, D.root, D.index, D.try_files, D.alias,
     D.proxy_pass, D.proxy_http_version, S.return, D.rewrite}

\* /^\s*KEY\s+[^;]+;?\s*$/gm, and the generic pattern of removeDirective
\* (flags gim) for a key DIRECTIVE_PATTERNS does not hold.
directivePattern(key, ci) ==
    <<Bol, Ws(0)>> \o Lit(key, ci) \o <<Ws(1), NotSemi, Semi, Ws(0), Eol>>

\* new RegExp(`^\\s*add_header\\s+['"]?${name}['"]?\\s+[^;]+;?\\s*$`, 'gim')
createAddHeaderPattern(headerName) ==
    <<Bol, Ws(0)>> \o Lit(S.add_header, TRUE) \o <<Ws(1), Quote>>
        \o Lit(headerName, TRUE) \o <<Quote, Ws(1), NotSemi, Semi, Ws(0), Eol>>

\* new RegExp(`^\\s*proxy_set_header\\s+${name}\\s+[^;]+;?\\s*$`, 'gim')
createProxySetHeaderPattern(headerName) ==
    <<Bol, Ws(0)>> \o Lit(S.proxy_set_header, TRUE) \o <<Ws(1)>>
        \o Lit(headerName, TRUE) \o <<Ws(1), NotSemi, Semi, Ws(0), Eol>>

\* ConfigCleaner.cleanAndFormat: drop a blank line that is first or follows a
\* blank line, join, trim.
cleanAndFormat(text) ==
    LET arr == Split(text, "\n")
        keep(i) == \/ Trim(arr[i]) # <<>>
                   \/ (i # 1 /\ Trim(arr[i - 1]) # <<>>)
        RECURSIVE kept(_)
        kept(i) == IF i > Len(arr) THEN <<>>
                   ELSE (IF keep(i) THEN <<arr[i]>> ELSE <<>>) \o kept(i + 1)
    IN  Trim(Join(kept(1), <<"\n">>))

\* removeDirective with patterns that lack the g flag: String.prototype.replace
\* then replaces the first match only.
removeFirstDirective(text, directiveName) ==
    LET re == IF StartsWith(directiveName, S.add_header_)
              THEN createAddHeaderPattern(Trim(Drop(directiveName, Len(S.add_header_) + 1)))
              ELSE IF StartsWith(directiveName, S.proxy_set_header_)
              THEN createProxySetHeaderPattern(
                       Trim(Drop(directiveName, Len(S.proxy_set_header_) + 1)))
              ELSE directivePattern(directiveName, directiveName \notin DIRECTIVE_PATTERNS)
        ends == Force([j \in 1..Len(text) |-> MatchFrom(re, 1, text, j)], Len(text))
        starts == {j \in 1..Len(text) : ends[j] > j}
    IN  IF Trim(text) = <<>> THEN <<>>
        ELSE IF starts = {} THEN cleanAndFormat(text)
        ELSE cleanAndFormat(SubSeq(text, 1, Min(starts) - 1)
                                \o SubSeq(text, ends[Min(starts)], Len(text)))

removeDirective(text, directiveName) ==
    IF Trim(text) = <<>> THEN <<>>
    ELSE IF StartsWith(directiveName, S.add_header_)
    THEN cleanAndFormat(ReplaceAll(
             createAddHeaderPattern(Trim(Drop(directiveName, Len(S.add_header_) + 1))),
             text, <<>>))
    ELSE IF StartsWith(directiveName, S.proxy_set_header_)
    THEN cleanAndFormat(ReplaceAll(
             createProxySetHeaderPattern(
                 Trim(Drop(directiveName, Len(S.proxy_set_header_) + 1))),
             text, <<>>))
    ELSE cleanAndFormat(ReplaceAll(
             directivePattern(directiveName, directiveName \notin DIRECTIVE_PATTERNS),
             text, <<>>))

RECURSIVE removeDirectives(_, _)
removeDirectives(text, directiveNames) ==
    IF directiveNames = <<>> THEN text
    ELSE Bind(removeDirective(text, Head(directiveNames)),
              LAMBDA t : removeDirectives(t, Tail(directiveNames)))

smartAddDirective(existingText, newDirective, directiveName) ==
    LET cleaned == removeDirective(existingText, directiveName)
    IN  IF Trim(cleaned) # <<>> THEN cleaned \o <<"\n">> \o newDirective
        ELSE newDirective

smartAddHeader(existingText, headerName, headerValue, always) ==
    smartAddDirective(
        existingText,
        S.add_header_ \o headerName \o <<" ", "\"">> \o headerValue \o <<"\"">>
            \o (IF always THEN S.always ELSE <<>>) \o <<";">>,
        S.add_header_ \o headerName)

----------------------------------------------------------------------------
(* The NginxConfig value.  A config is a record                            *)
(*   [global, http, servers, locations, upstreams]                         *)
(* holding the fields the fix engine reads or writes; servers, locations   *)
(* and upstreams are sequences in declaration order.  Identifiers are      *)
(* strings; null is the JavaScript null of affectedNodeId and upstreamId.  *)

null == "null"

\* uuidv4(): the n-th identifier handed out.
uuidv4(n) == "u" \o ToString(n)

\* Array.prototype.map over a sequence
Map(s, F(_)) == [i \in 1..Len(s) |-> F(s[i])]

\* Array.prototype.find: the first element that satisfies P, as a sequence
\* of length 0 (undefined) or 1.
Find(s, P(_)) ==
    LET hits == SelectSeq(s, P) IN IF hits = <<>> THEN <<>> ELSE <<Head(hits)>>

\* { ...config, ...partial }
Merge(cfg, partial) ==
    [k \in DOMAIN cfg |-> IF k \in DOMAIN partial THEN partial[k] ELSE cfg[k]]

\* The partial config of one key, and the empty update {}.
Partial1(k, v) == k :> v
NoUpdate == <<>>

----------------------------------------------------------------------------
(* AutoFixService.ts                                                       *)

\* String(port ?? '') of the server's listen.port
getPortAsString(server) == ToString(server.listen.port)

\* A conversion that appends the redirect to the passthrough text it finds
\* instead of replacing the text.
convertAppendingRedirect(server, serverName) ==
    [server EXCEPT
        !.name = serverName \o S.httpRedirectSuffix,
        !.listen = [@ EXCEPT !.port = 80, !.http2 = FALSE, !.defaultServer = FALSE],
        !.serverName = serverName,
        !.ssl = [@ EXCEPT !.enabled = FALSE, !.forceRedirect = FALSE,
                          !.certificate = "", !.certificateKey = "",
                          !.protocols = <<>>, !.ciphers = ""],
        !.root = "",
        !.index = <<>>,
        !.customDirectives = IF server.customDirectives = <<>> THEN S.redirect
                             ELSE server.customDirectives \o <<"\n">> \o S.redirect]

convertToPureRedirectHttpServer(server, serverName) ==
    [server EXCEPT
        !.name = serverName \o S.httpRedirectSuffix,
        !.listen = [@ EXCEPT !.port = 80, !.http2 = FALSE, !.defaultServer = FALSE],
        !.serverName = serverName,
        !.ssl = [@ EXCEPT !.enabled = FALSE, !.forceRedirect = FALSE,
                          !.certificate = "", !.certificateKey = "",
                          !.protocols = <<>>, !.ciphers = ""],
        !.root = "",
        !.index = <<>>,
        !.customDirectives = S.redirect]

findHttpNode(cfg, serverName, excludeServerId) ==
    LET P(s) == /\ s.id # excludeServerId
                /\ getPortAsString(s) = "80"
                /\ s.serverName = serverName
    IN  Find(cfg.servers, P)

fixRootUser(cfg) ==
    [cfg EXCEPT !.global = [@ EXCEPT
        !.customDirectives = cleanDirectives(cfg.global.customDirectives, {S.user}),
        !.user = "nginx"]]

fixServerTokens(cfg) ==
    LET cleanS(s) == [s EXCEPT !.customDirectives =
                          cleanDirectives(s.customDirectives, {S.server_tokens})]
    IN  [cfg EXCEPT
            !.global = [@ EXCEPT !.customDirectives =
                            cleanDirectives(cfg.global.customDirectives, {S.server_tokens})],
            !.http = [@ EXCEPT
                        !.serverTokens = FALSE,
                        !.customDirectives =
                            cleanDirectives(cfg.http.customDirectives, {S.server_tokens})],
            !.servers = Map(cfg.servers, cleanS)]

fixSslProtocols(cfg) ==
    LET fixS(s) ==
            IF ~s.ssl.enabled THEN s
            ELSE [s EXCEPT
                    !.ssl = [@ EXCEPT !.protocols = <<"TLSv1.2", "TLSv1.3">>],
                    !.customDirectives =
                        cleanDirectives(s.customDirectives, {S.ssl_protocols})]
    IN  [cfg EXCEPT !.servers = Map(cfg.servers, fixS)]

fixAutoindex(cfg) ==
    LET cleanX(x) == [x EXCEPT !.customDirectives =
                          cleanDirectives(x.customDirectives, {S.autoindex})]
    IN  [cfg EXCEPT !.servers = Map(cfg.servers, cleanX),
                    !.locations = Map(cfg.locations, cleanX)]

\* The redirect server of the "create" branch, with the identifier newId.
newRedirectServer(httpsServer, serverName, newId) ==
    convertToPureRedirectHttpServer(
        [id |-> newId,
         name |-> serverName \o S.httpRedirectSuffix,
         listen |-> [port |-> 80, defaultServer |-> FALSE, http2 |-> FALSE],
         serverName |-> serverName,
         ssl |-> [httpsServer.ssl EXCEPT
                    !.enabled = FALSE, !.forceRedirect = FALSE, !.protocols = <<>>,
                    !.ciphers = "", !.certificate = "", !.certificateKey = ""],
         root |-> "",
         index |-> <<>>,
         customDirectives |-> <<>>],
        serverName)

\* Steps 1-3 of applyForceHttps: hijack the port-80 server found, or append
\* a new one.  Yields the next servers and locations and whether uuidv4 ran.
hijackOrCreate(cfg, httpsServer, httpsServerId, newId) ==
    LET serverName == httpsServer.serverName
        existingHttp == findHttpNode(cfg, serverName, httpsServerId)
    IN  IF existingHttp # <<>>
        THEN LET redirectId == existingHttp[1].id
                 locs1 == SelectSeq(cfg.locations, LAMBDA l : l.serverId # redirectId)
                 servers1 == Map(cfg.servers,
                                 LAMBDA s : IF s.id = redirectId
                                            THEN convertToPureRedirectHttpServer(s, serverName)
                                            ELSE s)
                 extra(s) == /\ s.id # redirectId
                             /\ getPortAsString(s) = "80"
                             /\ s.serverName = serverName
                 extraIds == {servers1[i].id : i \in {j \in 1..Len(servers1) : extra(servers1[j])}}
             IN  [servers |-> SelectSeq(servers1, LAMBDA s : s.id \notin extraIds),
                  locations |-> SelectSeq(locs1, LAMBDA l : l.serverId \notin extraIds),
                  created |-> FALSE]
        ELSE [servers |-> Append(cfg.servers,
                                 newRedirectServer(httpsServer, serverName, newId)),
              locations |-> cfg.locations,
              created |-> TRUE]

\* AutoFixService.applyForceHttps(config, httpsServerId); n is the number of
\* identifiers uuidv4 has handed out.  Yields [config, uuid].
applyForceHttps(cfg, httpsServerId, n) ==
    LET found == Find(cfg.servers, LAMBDA s : s.id = httpsServerId)
    IN  IF found = <<>> THEN [config |-> cfg, uuid |-> n]
        ELSE LET r == hijackOrCreate(cfg, found[1], httpsServerId, uuidv4(n + 1))
                 servers2 == Map(r.servers,
                                 LAMBDA s : IF s.id = httpsServerId
                                            THEN [s EXCEPT !.ssl = [@ EXCEPT
                                                     !.enabled = TRUE,
                                                     !.forceRedirect = FALSE]]
                                            ELSE s)
             IN  [config |-> [cfg EXCEPT !.servers = servers2,
                                         !.locations = r.locations],
                  uuid |-> IF r.created THEN n + 1 ELSE n]

\* The for-of loop of AutoFixService.applyAllFixes: it walks the servers
\* array it started with (snapshot), testing each element's own ssl flags.
RECURSIVE forceHttpsLoop(_, _, _)
forceHttpsLoop(st, snapshot, i) ==
    IF i > Len(snapshot) THEN st
    ELSE Bind(IF snapshot[i].ssl.enabled /\ snapshot[i].ssl.forceRedirect
              THEN applyForceHttps(st.config, snapshot[i].id, st.uuid)
              ELSE st,
              LAMBDA next : forceHttpsLoop(next, snapshot, i + 1))

\* AutoFixService.applyAllFixes; yields [config, uuid].
AutoFixService_applyAllFixes(cfg, n) ==
    Bind(fixSslProtocols(fixAutoindex(fixServerTokens(fixRootUser(cfg)))),
         LAMBDA current :
             forceHttpsLoop([config |-> current, uuid |-> n], current.servers, 1))

----------------------------------------------------------------------------
(* The audit engine (auditService: rules, runAudit, applyFix, applyAllFixes) *)

\* isRedirectServer of utils/configGenerator: the server's passthrough text
\* holds a line `return 301|302|307|308 ...`  (/^\s*return\s+30[1278]\s+/m).
RedirectText(text) ==
    Test(<<Bol, Ws(0)>> \o Lit(S.return, FALSE) \o <<Ws(1)>> \o Lit(S.thirty, FALSE)
            \o <<Cls({"1", "2", "7", "8"}, FALSE, 1, 1), Ws(1)>>,
         text)
isRedirectServer(server) == RedirectText(server.customDirectives)

serverNeedsSecurityHeaders(server) == ~isRedirectServer(server)

\* new RegExp(`add_header\\s+['"]?${headerName}['"]?\\s+`, 'i').test(text)
hasAddHeader(customDirectives, headerName) ==
    Test(Lit(S.add_header, TRUE) \o <<Ws(1), Quote>> \o Lit(headerName, TRUE)
            \o <<Quote, Ws(1)>>,
         customDirectives)

auditRules ==
    <<"security-server-tokens", "security-hidden-files", "security-x-frame-options",
      "security-x-content-type", "security-hsts", "perf-gzip", "perf-sendfile",
      "perf-tcp-nodelay", "perf-worker-processes", "perf-keepalive",
      "config-empty-upstream", "config-missing-server-name">>

\* Every rule reporting its issues as warnings.
severityWarning(ruleId) == "warning"

\* The severity each rule gives its issues.
severityOf(ruleId) ==
    CASE ruleId \in {"security-server-tokens", "security-hidden-files",
                     "security-hsts", "config-empty-upstream"} -> "critical"
      [] ruleId \in {"security-x-frame-options", "security-x-content-type",
                     "perf-gzip", "config-missing-server-name"} -> "warning"
      [] OTHER -> "info"

\* The rules that define no fix (canAutoFix: false).
detectionOnly == {"config-empty-upstream", "config-missing-server-name"}

\* The header a security-header rule checks and adds, and its value.
headerOf(ruleId) ==
    CASE ruleId = "security-x-frame-options" ->
            [name |-> S.XFrameOptions, value |-> S.SAMEORIGIN]
      [] ruleId = "security-x-content-type" ->
            [name |-> S.XContentTypeOptions, value |-> S.nosniff]
      [] ruleId = "security-hsts" ->
            [name |-> S.StrictTransportSecurity, value |-> S.hstsValue]

Issue(ruleId, nodeId, nodeType) ==
    [ruleId |-> ruleId, severity |-> severityOf(ruleId),
     affectedNodeId |-> nodeId, affectedNodeType |-> nodeType,
     canAutoFix |-> ruleId \notin detectionOnly]

\* One issue of the rule for each element of nodes that satisfies Bad.
IssuesFor(ruleId, nodes, nodeType, Bad(_)) ==
    Map(SelectSeq(nodes, Bad), LAMBDA x : Issue(ruleId, x.id, nodeType))

\* The hidden-files rule's test of a location path (check, lines 145-147).
isHiddenFileRule(path) ==
    \/ Includes(path, S.backslashDot)
    \/ Includes(path, <<"/">> \o S.backslashDot)
    \/ path = S.tildeHidden

\* rule.check(config)
check(ruleId, cfg) ==
    CASE ruleId = "security-server-tokens" ->
            IF cfg.http.serverTokens # FALSE
            THEN <<Issue(ruleId, null, "http")>> ELSE <<>>
      [] ruleId = "security-hidden-files" ->
            IssuesFor(ruleId, cfg.servers, "server",
                LAMBDA s :
                    /\ ~isRedirectServer(s)
                    /\ LET serverLocations ==
                               SelectSeq(cfg.locations, LAMBDA l : l.serverId = s.id)
                       IN  /\ ~\E i \in 1..Len(serverLocations) :
                                   isHiddenFileRule(serverLocations[i].path)
                           /\ Len(serverLocations) > 0)
      [] ruleId \in {"security-x-frame-options", "security-x-content-type"} ->
            IssuesFor(ruleId, cfg.servers, "server",
                LAMBDA s : /\ serverNeedsSecurityHeaders(s)
                           /\ ~hasAddHeader(s.customDirectives, headerOf(ruleId).name))
      [] ruleId = "security-hsts" ->
            IssuesFor(ruleId, cfg.servers, "server",
                LAMBDA s : /\ serverNeedsSecurityHeaders(s)
                           /\ s.ssl.enabled /\ s.listen.port = 443
                           /\ ~hasAddHeader(s.customDirectives, headerOf(ruleId).name))
      [] ruleId = "perf-gzip" ->
            IF ~cfg.http.gzip.enabled THEN <<Issue(ruleId, null, "http")>> ELSE <<>>
      [] ruleId = "perf-sendfile" ->
            IF ~cfg.http.sendfile THEN <<Issue(ruleId, null, "http")>> ELSE <<>>
      [] ruleId = "perf-tcp-nodelay" ->
            IF ~cfg.http.tcpNodelay THEN <<Issue(ruleId, null, "http")>> ELSE <<>>
      [] ruleId = "perf-worker-processes" ->
            IF cfg.global.workerProcesses # "auto"
            THEN <<Issue(ruleId, null, "global")>> ELSE <<>>
      [] ruleId = "perf-keepalive" ->
            IF cfg.http.keepaliveTimeout < 60
            THEN <<Issue(ruleId, null, "http")>> ELSE <<>>
      [] ruleId = "config-empty-upstream" ->
            IssuesFor(ruleId, cfg.upstreams, "upstream",
                LAMBDA u : Len(u.servers) = 0)
      [] ruleId = "config-missing-server-name" ->
            IssuesFor(ruleId, cfg.servers, "server",
                LAMBDA s : s.serverName = <<>> \/ s.serverName = <<"_">>)

\* The location the hidden-files fix creates.
hiddenFileLocation(newId, serverId) ==
    [id |-> newId, serverId |-> serverId, modifier |-> "~", path |-> S.hiddenPath,
     proxyPass |-> <<>>, upstreamId |-> null, returnCode |-> 403, returnUrl |-> <<>>,
     customDirectives |-> S.hiddenComment]

\* A security-header fix that changes nothing.
headerFixNothing(ruleId, cfg, affectedNodeId) == NoUpdate

\* The fix of a security-header rule.
headerFix(ruleId, cfg, affectedNodeId) ==
    IF affectedNodeId = "" THEN NoUpdate
    ELSE LET server == Find(cfg.servers, LAMBDA s : s.id = affectedNodeId)
         IN  IF server # <<>> /\ ~serverNeedsSecurityHeaders(server[1]) THEN NoUpdate
             ELSE Partial1("servers",
                      Map(cfg.servers,
                          LAMBDA s :
                              IF s.id = affectedNodeId
                              THEN [s EXCEPT !.customDirectives =
                                       smartAddHeader(s.customDirectives,
                                           headerOf(ruleId).name,
                                           headerOf(ruleId).value, TRUE)]
                              ELSE s))

httpFix(cfg, field, value, directiveNames) ==
    Partial1("http",
        [cfg.http EXCEPT
            ![field] = value,
            !.customDirectives = removeDirectives(cfg.http.customDirectives, directiveNames)])

\* rule.fix(config, affectedNodeId): a partial config.  newId is the value
\* of uuidv4() for the location the hidden-files fix may create.
fix(ruleId, cfg, affectedNodeId, newId) ==
    CASE ruleId = "security-server-tokens" ->
            httpFix(cfg, "serverTokens", FALSE, <<S.server_tokens>>)
      [] ruleId = "security-hidden-files" ->
            IF affectedNodeId = "" THEN NoUpdate
            ELSE IF \E i \in 1..Len(cfg.locations) :
                        /\ cfg.locations[i].serverId = affectedNodeId
                        /\ \/ Includes(cfg.locations[i].path, S.backslashDot)
                           \/ cfg.locations[i].path = S.tildeHidden
                 THEN NoUpdate
                 ELSE Partial1("locations",
                          Append(cfg.locations, hiddenFileLocation(newId, affectedNodeId)))
      [] ruleId \in {"security-x-frame-options", "security-x-content-type",
                     "security-hsts"} ->
            headerFix(ruleId, cfg, affectedNodeId)
      [] ruleId = "perf-gzip" ->
            httpFix(cfg, "gzip",
                [cfg.http.gzip EXCEPT
                    !.enabled = TRUE,
                    !.compLevel = IF cfg.http.gzip.compLevel # 0
                                  THEN cfg.http.gzip.compLevel ELSE 6,
                    !.types = IF Len(cfg.http.gzip.types) > 0 THEN cfg.http.gzip.types
                              ELSE <<"text/plain", "text/css", "application/json",
                                     "application/javascript", "text/xml",
                                     "application/xml", "image/svg+xml">>],
                <<S.gzip, S.gzip_comp_level, S.gzip_types, S.gzip_min_length>>)
      [] ruleId = "perf-sendfile" ->
            httpFix(cfg, "sendfile", TRUE, <<S.sendfile>>)
      [] ruleId = "perf-tcp-nodelay" ->
            httpFix(cfg, "tcpNodelay", TRUE, <<S.tcp_nodelay>>)
      [] ruleId = "perf-worker-processes" ->
            Partial1("global",
                [cfg.global EXCEPT
                    !.workerProcesses = "auto",
                    !.customDirectives =
                        removeDirective(cfg.global.customDirectives, S.worker_processes)])
      [] ruleId = "perf-keepalive" ->
            httpFix(cfg, "keepaliveTimeout", 65, <<S.keepalive_timeout>>)

\* issues.push(...rule.check(config)) over all rules, in rule order
RECURSIVE allIssues(_, _)
allIssues(cfg, i) ==
    IF i > Len(auditRules) THEN <<>>
    ELSE check(auditRules[i], cfg) \o allIssues(cfg, i + 1)

\* The grade with the threshold of A at 80.
gradeOfLenient(score) ==
    IF score >= 80 THEN "A" ELSE IF score >= 75 THEN "B"
    ELSE IF score >= 60 THEN "C" ELSE IF score >= 40 THEN "D" ELSE "F"

gradeOf(score) ==
    IF score >= 90 THEN "A" ELSE IF score >= 75 THEN "B"
    ELSE IF score >= 60 THEN "C" ELSE IF score >= 40 THEN "D" ELSE "F"

\* issues.sort by severity: the stable sort puts critical first, then
\* warning, then info, each group in rule order.
sortBySeverity(raw) ==
    SelectSeq(raw, LAMBDA i : i.severity = "critical")
        \o SelectSeq(raw, LAMBDA i : i.severity = "warning")
        \o SelectSeq(raw, LAMBDA i : i.severity = "info")

\* The issues field of runAudit(cfg).
auditIssues(cfg) == Bind(allIssues(cfg, 1), sortBySeverity)

runAudit(cfg) ==
    LET count(issues, x) == Len(SelectSeq(issues, LAMBDA i : i.severity = x))
        result(issues) ==
            LET ded == 20 * count(issues, "critical") + 10 * count(issues, "warning")
                           + 3 * count(issues, "info")
                score == IF 100 - ded > 0 THEN 100 - ded ELSE 0
            IN  [score |-> score, grade |-> gradeOf(score), issues |-> issues,
                 passedRules |-> Cardinality({i \in 1..Len(auditRules) :
                                                  check(auditRules[i], cfg) = <<>>}),
                 totalRules |-> Len(auditRules)]
    IN  Bind(auditIssues(cfg), result)

\* The for loop over one audit's issues (applyAllFixes, lines 752-763).
\* st is [config, uuid, hasChanges].
RECURSIVE applyIssueFixes(_, _, _)
applyIssueFixes(st, issues, i) ==
    IF i > Len(issues) THEN st
    ELSE LET issue == issues[i]
             update == fix(issue.ruleId, st.config,
                           IF issue.affectedNodeId = null THEN "" ELSE issue.affectedNodeId,
                           uuidv4(st.uuid + 1))
         IN  Bind(IF ~issue.canAutoFix \/ issue.ruleId \in detectionOnly THEN st
                  ELSE IF DOMAIN update # {}
                       THEN [config |-> Merge(st.config, update),
                             uuid |-> IF "locations" \in DOMAIN update
                                      THEN st.uuid + 1 ELSE st.uuid,
                             hasChanges |-> TRUE]
                       ELSE st,
                  LAMBDA next : applyIssueFixes(next, issues, i + 1))

maxIterations == 10

----------------------------------------------------------------------------
(* Configurations the model starts from.  The entities carry the fields    *)
(* of types/nginx.ts that the fix engine reads or writes.                   *)

MaxServers == 3      \* servers of a starting configuration (resolver)
MaxOps == 2          \* operations run one after the other

Names == {<<"a">>, <<"b">>}
SslModes == {"off", "tls", "force"}
Ports == {80, 443}

defaultGlobalConfig ==
    [user |-> "nginx", workerProcesses |-> "auto",
     errorLog |-> [path |-> "/var/log/nginx/error.log", level |-> "warn"],
     pid |-> "/run/nginx.pid", customDirectives |-> <<>>]
defaultEventsConfig ==
    [workerConnections |-> 1024, use |-> "epoll", multiAccept |-> TRUE,
     customDirectives |-> <<>>]
defaultHttpConfig ==
    [sendfile |-> TRUE, tcpNopush |-> TRUE, tcpNodelay |-> TRUE,
     keepaliveTimeout |-> 65, typesHashMaxSize |-> 2048,
     defaultType |-> "application/octet-stream",
     gzip |-> [enabled |-> TRUE,
               types |-> <<"text/plain", "text/css", "application/json",
                           "application/javascript", "text/xml", "application/xml">>,
               compLevel |-> 6, minLength |-> 1024],
     serverTokens |-> FALSE, clientMaxBodySize |-> "10m",
     customDirectives |-> <<>>]
defaultSSLConfig ==
    [enabled |-> FALSE, certificate |-> "/etc/nginx/ssl/cert.pem",
     certificateKey |-> "/etc/nginx/ssl/key.pem",
     protocols |-> <<"TLSv1.2", "TLSv1.3">>, ciphers |->
         "ECDHE-ECDSA-AES128-GCM-SHA256:ECDHE-RSA-AES128-GCM-SHA256:ECDHE-ECDSA-AES256-GCM-SHA384:ECDHE-RSA-AES256-GCM-SHA384",
     forceRedirect |-> TRUE]

\* A ServerConfig.  mode: "off" (no TLS), "tls", or "force" (TLS with
\* forceRedirect).
Server(id, port, serverName, mode, text) ==
    [id |-> id, name |-> serverName,
     listen |-> [port |-> port, defaultServer |-> FALSE, http2 |-> FALSE],
     serverName |-> serverName,
     ssl |-> [defaultSSLConfig EXCEPT !.enabled = mode # "off",
                                      !.forceRedirect = mode = "force"],
     root |-> "/var/www/html", index |-> <<"index.html">>,
     customDirectives |-> text]

\* A LocationConfig of the server serverId.
Location(id, serverId, path) ==
    [id |-> id, serverId |-> serverId, modifier |-> "", path |-> path,
     proxyPass |-> <<>>, upstreamId |-> null, returnCode |-> 0, returnUrl |-> <<>>,
     customDirectives |-> <<>>]

ServerIds == <<"s1", "s2", "s3", "s4">>

\* The servers of a starting configuration of the resolver: up to MaxServers
\* servers, each on port 80 or 443, named a or b, with or without TLS.
ServerChoices == Ports \X Names \X SslModes
ResolverServers ==
    UNION {{[i \in 1..n |-> Server(ServerIds[i], c[i][1], c[i][2], c[i][3], <<"r","o","o","t"," ","/","x",";">>)]
               : c \in [1..n -> ServerChoices]} : n \in 1..MaxServers}

\* Every server of a starting configuration owns one location, the servers
\* in owners; location ids are l1, l2, ...
LocationsOf(servers, owners) ==
    LET idx == SelectSeq([i \in 1..Len(servers) |-> i], LAMBDA i : i \in owners)
    IN  [k \in 1..Len(idx) |->
            Location("l" \o ToString(idx[k]), servers[idx[k]].id, <<"/">>)]

ResolverConfigs ==
    {[global |-> defaultGlobalConfig, events |-> defaultEventsConfig,
      http |-> defaultHttpConfig, servers |-> ss, locations |-> LocationsOf(ss, 1..Len(ss)), upstreams |-> <<>>]
        : ss \in ResolverServers}

NoOp == [op |-> "none", target |-> "", before |-> <<>>, prevOp |-> "none", prevTarget |-> ""]
Done(op, target) ==
    [op |-> op, target |-> target, before |-> config,
     prevOp |-> last.op, prevTarget |-> last.target]

ParseOff ==
    /\ input = <<>> /\ lex = <<>> /\ tokens = <<>> /\ pos = 0 /\ ast = <<>>
    /\ status = "off" /\ rootIters = 0 /\ thrown = <<>> /\ parsed = <<>>

InitResolver ==
    /\ config \in ResolverConfigs
    /\ uuid = 0 /\ pc = "idle" /\ hasChanges = FALSE /\ iterations = 0
    /\ last = NoOp /\ ops = 0
    /\ ParseOff
    /\ MatchOff
    /\ CleanerOff
    /\ StoreOff

\* AutoFixService.applyForceHttps(config, sid) called on the current config.
ApplyForceHttps(sid) ==
    /\ pc = "idle" /\ ops < MaxOps
    /\ LET r == applyForceHttps(config, sid, uuid)
       IN  config' = r.config /\ uuid' = r.uuid
    /\ last' = Done("applyForceHttps", sid)
    /\ ops' = ops + 1
    /\ UNCHANGED <<pc, hasChanges, iterations>>
    /\ UNCHANGED parseVars
    /\ UNCHANGED matchVars
    /\ UNCHANGED cleanerVars
    /\ UNCHANGED storeVars

\* AutoFixService.applyAllFixes(config) called on the current config.
AutoFixApplyAllFixes ==
    /\ pc = "idle" /\ ops < MaxOps
    /\ LET r == AutoFixService_applyAllFixes(config, uuid)
       IN  config' = r.config /\ uuid' = r.uuid
    /\ last' = Done("AutoFixService.applyAllFixes", "")
    /\ ops' = ops + 1
    /\ UNCHANGED <<pc, hasChanges, iterations>>
    /\ UNCHANGED parseVars
    /\ UNCHANGED matchVars
    /\ UNCHANGED cleanerVars
    /\ UNCHANGED storeVars

NextResolver ==
    \/ \E i \in 1..Len(ServerIds) : ApplyForceHttps(ServerIds[i])
    \/ AutoFixApplyAllFixes

SpecResolver == InitResolver /\ [][NextResolver]_vars

----------------------------------------------------------------------------
(* The force-HTTPS resolver: properties                                    *)

\* The target of the last applyForceHttps call as it was before the call
\* (a sequence of length 0 when the id named no server).
TargetBefore ==
    IF last.op = "applyForceHttps"
    THEN Find(last.before.servers, LAMBDA s : s.id = last.target)
    ELSE <<>>

\* The resolver has just run for a TLS server of the configuration.
ResolverRan == TargetBefore # <<>> /\ TargetBefore[1].ssl.enabled

\* The servers of cfg that listen on port 80 with the given serverName.
Port80Named(cfg, serverName) ==
    {i \in 1..Len(cfg.servers) :
        cfg.servers[i].listen.port = 80 /\ cfg.servers[i].serverName = serverName}

\* The first server other than the target that listened on port 80 with the
\* target's serverName before the call: the sibling T the resolver reuses.
SiblingBefore ==
    LET S0 == TargetBefore[1]
        c == {i \in Port80Named(last.before, S0.serverName) :
                  last.before.servers[i].id # S0.id}
    IN  IF c = {} THEN <<>> ELSE <<last.before.servers[Min(c)]>>

\* C4: after the resolver has run for a TLS target S (directly, or through
\* AutoFixService.applyAllFixes for every TLS server with forceRedirect), no
\* two distinct servers listen on port 80 with S's serverName, whatever port
\* S listens on and whatever the order of the servers.
C4_OnePort80PerName ==
    /\ ResolverRan =>
           Cardinality(Port80Named(config, TargetBefore[1].serverName)) <= 1
    /\ last.op = "AutoFixService.applyAllFixes" =>
           \A i \in 1..Len(last.before.servers) :
               LET s == last.before.servers[i]
               IN  (s.ssl.enabled /\ s.ssl.forceRedirect) =>
                       Cardinality(Port80Named(config, s.serverName)) <= 1

C6_TargetKept ==
    ResolverRan =>
        LET sid == TargetBefore[1].id
            now == Find(config.servers, LAMBDA s : s.id = sid)
        IN  /\ now # <<>>
            /\ now[1].ssl.enabled = TRUE
            /\ now[1].ssl.forceRedirect = FALSE
            /\ \A j \in 1..Len(last.before.locations) :
                   last.before.locations[j].serverId = sid =>
                       \E k \in 1..Len(config.locations) :
                           config.locations[k] = last.before.locations[j]

\* C7: running applyForceHttps a second time with the same target on the
\* result of the first run changes nothing.
C7_ResolverIdempotent ==
    (ResolverRan /\ last.prevOp = "applyForceHttps" /\ last.prevTarget = last.target) =>
        config = last.before

----------------------------------------------------------------------------
(* applyAllFixes of the audit service, one step per statement group:       *)
(* the AutoFixService stage, each pass of the while loop, the return.      *)

\* while (true)
loopForever(hc, it) == TRUE

\* The condition of the while loop: hasChanges && iterations < maxIterations
loopContinues(hc, it) == hc /\ it < maxIterations

MaxFixServers == 2   \* servers of a starting configuration (applyAllFixes)

T ==
    [twoUsers |-> <<"u","s","e","r"," ","a",";"," ","u","s","e","r"," ","b",";">>,
     httpText |-> <<"g","z","i","p"," ","o","n",";","\n","s","e","r","v","e","r","_","t","o","k","e","n","s"," ","o","n",";">>,
     rootX |-> <<"r","o","o","t"," ","/","x",";">>,
     bareHeader |-> <<"a","d","d","_","h","e","a","d","e","r"," ","X","-","C","o","n","t","e","n","t","-","T","y","p","e","-","O","p","t","i","o","n","s">>,
     redirectX |-> <<"r","e","t","u","r","n"," ","3","0","1"," ","h","t","t","p","s",":","/","/","x",";">>,
     twoAutoindex |-> <<"a","u","t","o","i","n","d","e","x"," ","a",";"," ","a","u","t","o","i","n","d","e","x"," ","o","n">>]

GlobalChoices ==
    {defaultGlobalConfig,
     [defaultGlobalConfig EXCEPT !.workerProcesses = "4"],
     [defaultGlobalConfig EXCEPT !.customDirectives = T.twoUsers]}

HttpChoices ==
    {defaultHttpConfig,
     [defaultHttpConfig EXCEPT
         !.serverTokens = TRUE, !.sendfile = FALSE, !.tcpNodelay = FALSE,
         !.keepaliveTimeout = 30,
         !.gzip = [@ EXCEPT !.enabled = FALSE, !.compLevel = 0, !.types = <<>>],
         !.customDirectives = T.httpText]}

\* The kinds of server a starting configuration is made of.
ServerKinds ==
    <<[port |-> 443, serverName |-> <<"a">>, mode |-> "force", text |-> <<>>],
      [port |-> 80, serverName |-> <<"a">>, mode |-> "off", text |-> T.rootX],
      [port |-> 80, serverName |-> <<"b">>, mode |-> "tls", text |-> T.bareHeader],
      [port |-> 80, serverName |-> <<"_">>, mode |-> "off", text |-> T.redirectX],
      [port |-> 80, serverName |-> <<"b">>, mode |-> "off", text |-> T.twoAutoindex]>>

FixServers ==
    UNION {{[i \in 1..n |->
                Server(ServerIds[i], ServerKinds[c[i]].port, ServerKinds[c[i]].serverName,
                       ServerKinds[c[i]].mode, ServerKinds[c[i]].text)]
               : c \in [1..n -> 1..Len(ServerKinds)]} : n \in 0..MaxFixServers}

Upstream(id, name, servers) ==
    [id |-> id, name |-> name, strategy |-> "round_robin", servers |-> servers,
     customDirectives |-> <<>>]
UpstreamServer(id, address) ==
    [id |-> id, address |-> address, port |-> 80, weight |-> 1, maxFails |-> 3,
     failTimeout |-> 30, backup |-> FALSE, down |-> FALSE]
UpstreamChoices ==
    {<<>>,
     <<Upstream("up1", <<"b">>, <<>>), Upstream("up2", <<"c">>, <<>>)>>,
     <<Upstream("up1", <<"b">>, <<UpstreamServer("us1", "127.0.0.1")>>),
       Upstream("up2", <<"c">>, <<>>)>>}

FixConfigs ==
    {[global |-> g, events |-> defaultEventsConfig, http |-> h, servers |-> ss,
      locations |-> LocationsOf(ss, owners), upstreams |-> u]
        : g \in GlobalChoices, h \in HttpChoices, u \in UpstreamChoices,
          <<ss, owners>> \in UNION {{<<x, o>> : o \in {{}, 1..Len(x)}} : x \in FixServers}}

InitFix ==
    /\ config \in FixConfigs
    /\ uuid = 0 /\ pc = "idle" /\ hasChanges = FALSE /\ iterations = 0
    /\ last = NoOp /\ ops = 0
    /\ ParseOff
    /\ MatchOff
    /\ CleanerOff
    /\ StoreOff

\* applyAllFixes up to the while loop: the AutoFixService stage (lines 731-743).
ApplyAllFixesStart ==
    /\ pc = "idle" /\ ops < MaxOps
    /\ LET r == AutoFixService_applyAllFixes(config, uuid)
       IN  config' = r.config /\ uuid' = r.uuid
    /\ hasChanges' = TRUE /\ iterations' = 0
    /\ pc' = "loop"
    /\ last' = Done("applyAllFixes", "")
    /\ ops' = ops + 1
    /\ UNCHANGED parseVars
    /\ UNCHANGED matchVars
    /\ UNCHANGED cleanerVars
    /\ UNCHANGED storeVars

\* One pass of the while loop: the audit and the fix of each of its issues.
LoopPass ==
    /\ pc = "loop" /\ loopContinues(hasChanges, iterations)
    /\ LET st == applyIssueFixes([config |-> config, uuid |-> uuid, hasChanges |-> FALSE],
                                 auditIssues(config), 1)
       IN  config' = st.config /\ uuid' = st.uuid /\ hasChanges' = st.hasChanges
    /\ iterations' = iterations + 1
    /\ UNCHANGED <<pc, last, ops>>
    /\ UNCHANGED parseVars
    /\ UNCHANGED matchVars
    /\ UNCHANGED cleanerVars
    /\ UNCHANGED storeVars

\* The loop is left and applyAllFixes returns currentConfig.
LoopExit ==
    /\ pc = "loop" /\ ~loopContinues(hasChanges, iterations)
    /\ pc' = "idle"
    /\ UNCHANGED <<config, uuid, hasChanges, iterations, last, ops>>
    /\ UNCHANGED parseVars
    /\ UNCHANGED matchVars
    /\ UNCHANGED cleanerVars
    /\ UNCHANGED storeVars

NextFix == ApplyAllFixesStart \/ LoopPass \/ LoopExit

SpecFix == InitFix /\ [][NextFix]_vars

\* applyAllFixes has returned.
Returned == pc = "idle" /\ last.op = "applyAllFixes"

\* C1: applyAllFixes stops before it has used its 10 passes and returns a
\* config with http.serverTokens = FALSE, gzip enabled, and on which runAudit
\* reports no issue with canAutoFix.
C1_Converges ==
    Returned =>
        /\ iterations < maxIterations
        /\ config.http.serverTokens = FALSE
        /\ config.http.gzip.enabled
        /\ \A issues \in {auditIssues(config)} :
               \A i \in 1..Len(issues) : ~issues[i].canAutoFix

\* C2: applyAllFixes run on its own result returns that result unchanged.
C2_Idempotent ==
    (Returned /\ last.prevOp = "applyAllFixes") => config = last.before

\* C3: applyAllFixes terminates, after at most 10 passes of its loop, and
\* returns a config.
C3_Terminates ==
    /\ iterations <= maxIterations
    /\ Returned =>
           /\ iterations >= 1
           /\ ~loopContinues(hasChanges, iterations)
           /\ DOMAIN config = {"global", "events", "http", "upstreams", "servers", "locations"}

\* A run on a config with server_tokens on and gzip off has returned after
\* more than one pass, and an issue of a detection-only rule remains.
C1_Witness ==
    /\ Returned
    /\ iterations >= 2
    /\ last.before.http.serverTokens /\ ~last.before.http.gzip.enabled
    /\ auditIssues(config) # <<>>

\* A run has returned after three passes: the second pass still changed the
\* config, the third found nothing to change.
C3_Witness == Returned /\ iterations = 3 /\ ~hasChanges

----------------------------------------------------------------------------
(* nginxParser.ts: the lexer.  Positions are counted from 1: the source's  *)
(* pos is the model's pos - 1.                                             *)

Token(type, value, line, column) ==
    [type |-> type, value |-> value, line |-> line, column |-> column]

ParseError(message, line, column) ==
    [name |-> "ParseError", message |-> message, line |-> line, column |-> column]

\* The characters \s of a JavaScript RegExp that texts of the model may hold.
JsSpace == {" ", "\t", "\n", "\r", "\f"}

\* /[^\s;{}'\"#]/.test(c)
WordChar(c) == c \notin (JsSpace \cup {";", "{", "}", "'", "\"", "#"})

\* The number of characters from index p on that satisfy P, up to the first
\* that does not: a while loop that advances over them.
RunWhile(text, p, P(_)) ==
    CHOOSE n \in 0..(Len(text) - p + 1) :
        /\ \A j \in 0..(n - 1) : P(text[p + j])
        /\ (n = Len(text) - p + 1 \/ ~P(text[p + n]))

\* The while loop of a quoted string (lines 114-126), from index p on.
RECURSIVE scanQuoted(_, _, _, _, _, _)
scanQuoted(text, quote, p, line, column, value) ==
    IF p > Len(text) \/ text[p] = quote
    THEN [pos |-> p, line |-> line, column |-> column, value |-> value]
    ELSE LET esc == text[p] = "\\" /\ p + 1 <= Len(text)
             q == IF esc THEN p + 1 ELSE p
         IN  scanQuoted(text, quote, q + 1,
                        IF text[q] = "\n" THEN line + 1 ELSE line,
                        IF text[q] = "\n" THEN 1
                        ELSE IF esc THEN column + 2 ELSE column + 1,
                        Append(value, text[q]))

\* tokenize's state when it starts.
lexStart == [pos |-> 1, line |-> 1, column |-> 1, tokens |-> <<>>, error |-> <<>>]

\* One iteration of tokenize's while loop, at L.pos <= Len(text).
lexStep(text, L) ==
    LET p == L.pos
        char == text[p]
    IN  CASE char \in {" ", "\t", "\r"} ->
                [L EXCEPT !.pos = p + 1, !.column = @ + 1]
          [] char = "\n" ->
                [L EXCEPT !.pos = p + 1, !.line = @ + 1, !.column = 1]
          [] char = "#" ->
                [L EXCEPT !.pos = p + RunWhile(text, p, LAMBDA c : c # "\n")]
          [] char \in {";", "{", "}"} ->
                [L EXCEPT !.pos = p + 1, !.column = @ + 1,
                          !.tokens = Append(@, Token(
                              CASE char = ";" -> "SEMICOLON"
                                [] char = "{" -> "LBRACE"
                                [] char = "}" -> "RBRACE",
                              <<char>>, L.line, L.column))]
          [] char \in {"\"", "'"} ->
                Bind(scanQuoted(text, char, p + 1, L.line, L.column + 1, <<>>),
                     LAMBDA r :
                        IF r.pos > Len(text)
                        THEN [L EXCEPT !.error =
                                 <<ParseError("Unterminated string", r.line, L.column)>>]
                        ELSE [L EXCEPT !.pos = r.pos + 1, !.line = r.line,
                                       !.column = r.column + 1,
                                       !.tokens = Append(@,
                                           Token("WORD", r.value, r.line, L.column))])
          [] WordChar(char) ->
                Bind(RunWhile(text, p, WordChar),
                     LAMBDA n :
                        [L EXCEPT !.pos = p + n, !.column = @ + n,
                                  !.tokens = Append(@,
                                      Token("WORD", SubSeq(text, p, p + n - 1),
                                            L.line, L.column))])
          [] OTHER ->
                [L EXCEPT !.error =
                    <<ParseError("Unexpected character", L.line, L.column)>>]

\* tokens.push({ type: 'EOF', ... }); return tokens
lexEnd(L) == Append(L.tokens, Token("EOF", <<>>, L.line, L.column))

\* tokenize(input): the tokens, or the ParseError thrown.
RECURSIVE lexLoop(_, _)
lexLoop(text, L) ==
    IF L.error # <<>> THEN [tokens |-> <<>>, error |-> L.error]
    ELSE IF L.pos > Len(text) THEN [tokens |-> lexEnd(L), error |-> <<>>]
    ELSE Bind(lexStep(text, L), LAMBDA n : lexLoop(text, n))
tokenize(text) == lexLoop(text, lexStart)

----------------------------------------------------------------------------
(* nginxParser.ts: class Parser.  parseStatement yields                    *)
(*   [kind, node, pos, error]                                              *)
(* kind "null" (it returned null), "node", or "error" (it threw); pos is   *)
(* Parser.pos when it returns.                                             *)

\* Parser.current()
current(toks, p) ==
    IF p <= Len(toks) THEN toks[p] ELSE Token("EOF", <<>>, 0, 0)

ASTDirective(name, args, line) ==
    [type |-> "directive", name |-> name, args |-> args, children |-> <<>>, line |-> line]
ASTBlock(name, args, children, line) ==
    [type |-> "block", name |-> name, args |-> args, children |-> children, line |-> line]

Thrown(message, tok, p) ==
    [kind |-> "error", node |-> <<>>, pos |-> p,
     error |-> <<ParseError(message, tok.line, tok.column)>>]

RECURSIVE parseStatement(_, _)
RECURSIVE parseChildren(_, _, _)
parseStatement(toks, p) ==
    LET token == current(toks, p)
    IN  IF token.type \in {"RBRACE", "EOF"}
        THEN [kind |-> "null", node |-> <<>>, pos |-> p, error |-> <<>>]
        ELSE IF token.type # "WORD"
        THEN Thrown("Unexpected token", token, p)
        ELSE LET n == CHOOSE k \in 0..Len(toks) :
                          /\ \A j \in 1..k : current(toks, p + j).type = "WORD"
                          /\ current(toks, p + k + 1).type # "WORD"
                 args == [j \in 1..n |-> toks[p + j].value]
                 q == p + n + 1
             IN  CASE current(toks, q).type = "LBRACE" ->
                        Bind(parseChildren(toks, q + 1, <<>>),
                             LAMBDA r :
                                IF r.kind = "error" THEN r
                                ELSE IF current(toks, r.pos).type # "RBRACE"
                                THEN Thrown("Expected RBRACE", current(toks, r.pos), r.pos)
                                ELSE [kind |-> "node",
                                      node |-> ASTBlock(token.value, args, r.node, token.line),
                                      pos |-> r.pos + 1, error |-> <<>>])
                   [] current(toks, q).type = "SEMICOLON" ->
                        [kind |-> "node",
                         node |-> ASTDirective(token.value, args, token.line),
                         pos |-> q + 1, error |-> <<>>]
                   [] OTHER -> Thrown("Expected ; or {", current(toks, q), q)
\* The while loop over a block's children; node holds the children so far.
parseChildren(toks, p, children) ==
    IF current(toks, p).type \in {"RBRACE", "EOF"}
    THEN [kind |-> "children", node |-> children, pos |-> p, error |-> <<>>]
    ELSE Bind(parseStatement(toks, p),
              LAMBDA r :
                 IF r.kind = "error" THEN r
                 ELSE parseChildren(toks, r.pos,
                          IF r.kind = "node" THEN Append(children, r.node) ELSE children))

----------------------------------------------------------------------------
(* nginxParser.ts: the AST to config converter.  Names and scalar values   *)
(* are compared and stored as strings (Str of the token's characters);     *)
(* the texts the fix engine works on stay character sequences.             *)

\* The string of a character sequence.
RECURSIVE Str(_)
Str(chars) == IF chars = <<>> THEN "" ELSE chars[1] \o Str(Tail(chars))

\* for (const child of children) { acc = Op(acc, child) }
FoldLeft(Op(_, _), acc, seq) ==
    LET RECURSIVE go(_, _)
        go(a, k) == IF k > Len(seq) THEN a
                    ELSE Bind(Op(a, seq[k]), LAMBDA next : go(next, k + 1))
    IN  go(acc, 1)

Digits == {"0", "1", "2", "3", "4", "5", "6", "7", "8", "9"}
DigitValue ==
    ("0" :> 0) @@ ("1" :> 1) @@ ("2" :> 2) @@ ("3" :> 3) @@ ("4" :> 4) @@
    ("5" :> 5) @@ ("6" :> 6) @@ ("7" :> 7) @@ ("8" :> 8) @@ ("9" :> 9)

\* The value parseInt gives for a text that does not start with a number.
NaN == -1

\* parseInt(chars, 10) of a text without sign: the number its leading digits
\* spell (after leading whitespace), NaN when there is none.
parseInt(chars) ==
    LET t == TrimStart(chars)
        n == RunWhile(t, 1, LAMBDA c : c \in Digits)
    IN  IF n = 0 THEN NaN
        ELSE FoldLeft(LAMBDA acc, c : 10 * acc + DigitValue[c], 0, SubSeq(t, 1, n))

\* parseInt(x, 10) || fallback
parseIntOr(chars, fallback) ==
    Bind(parseInt(chars), LAMBDA v : IF v = NaN \/ v = 0 THEN fallback ELSE v)

\* args[k - 1] || fallback: the k-th argument unless it is missing or empty.
ArgOr(args, k, fallback) ==
    IF k <= Len(args) /\ args[k] # <<>> THEN args[k] ELSE fallback

\* `${name} ${args.join(' ')};`
Passthrough(name, args) == name \o <<" ">> \o Join(args, <<" ">>) \o <<";">>

\* A comment line the converter writes for a block it does not convert.
CommentLine(prefix, text) == <<"#", " ">> \o prefix \o <<":", " ">> \o text

W ==
    [Block |-> <<"B","l","o","c","k">>,
     NestedLocation |-> <<"N","e","s","t","e","d"," ","l","o","c","a","t","i","o","n">>,
     root |-> <<"r","o","o","t">>,
     add_header |-> S.add_header,
     slash |-> <<"/">>,
     localhost |-> <<"l","o","c","a","l","h","o","s","t">>,
     upstream |-> <<"u","p","s","t","r","e","a","m">>,
     Server |-> <<"S","e","r","v","e","r">>,
     ImportedServer |-> <<"I","m","p","o","r","t","e","d"," ","S","e","r","v","e","r">>,
     weightEq |-> <<"w","e","i","g","h","t","=">>,
     maxFailsEq |-> <<"m","a","x","_","f","a","i","l","s","=">>,
     failTimeoutEq |-> <<"f","a","i","l","_","t","i","m","e","o","u","t","=">>,
     httpScheme |-> <<"h","t","t","p",":","/","/">>]

parseListenDirective(args) ==
    FoldLeft(LAMBDA r, arg :
                 IF arg # <<>> /\ \A k \in 1..Len(arg) : arg[k] \in Digits
                 THEN [r EXCEPT !.port = parseInt(arg)]
                 ELSE IF Str(arg) = "default_server" THEN [r EXCEPT !.defaultServer = TRUE]
                 ELSE IF Str(arg) = "http2" THEN [r EXCEPT !.http2 = TRUE]
                 ELSE IF Str(arg) = "ssl" THEN [r EXCEPT !.ssl = TRUE]
                 ELSE IF \E k \in 1..Len(arg) : arg[k] = ":"
                 THEN [r EXCEPT !.port =
                          LET parts == Split(arg, ":") IN parseInt(parts[Len(parts)])]
                 ELSE r,
             [port |-> 80, defaultServer |-> FALSE, http2 |-> FALSE, ssl |-> FALSE],
             args)

parseLocationModifier(args) ==
    IF Len(args) = 0 THEN [modifier |-> "", path |-> W.slash]
    ELSE IF Str(args[1]) \in {"=", "~", "~*", "^~"}
    THEN [modifier |-> Str(args[1]), path |-> ArgOr(args, 2, W.slash)]
    ELSE [modifier |-> "", path |-> args[1]]

\* createDefaultLocation(serverId) of types/nginx.ts, with the id given.
createDefaultLocation(id, serverId) ==
    [id |-> id, serverId |-> serverId, modifier |-> "", path |-> W.slash,
     proxyPass |-> <<>>, upstreamId |-> null,
     headers |-> <<[name |-> "Host", value |-> "$host", enabled |-> TRUE],
                   [name |-> "X-Real-IP", value |-> "$remote_addr", enabled |-> TRUE],
                   [name |-> "X-Forwarded-For",
                    value |-> "$proxy_add_x_forwarded_for", enabled |-> TRUE],
                   [name |-> "X-Forwarded-Proto", value |-> "$scheme", enabled |-> TRUE]>>,
     cors |-> [enabled |-> FALSE, allowOrigin |-> "*",
               allowMethods |-> <<"GET", "POST", "OPTIONS">>,
               allowHeaders |-> <<"Content-Type", "Authorization">>,
               allowCredentials |-> FALSE],
     websocket |-> FALSE, alias |-> "", tryFiles |-> "",
     returnCode |-> 0, returnUrl |-> <<>>,
     rewrite |-> <<>>,
     accessControl |-> [allow |-> <<>>, deny |-> <<>>,
                        authBasic |-> [enabled |-> FALSE, realm |-> "Restricted",
                                       userFile |-> "/etc/nginx/.htpasswd"]],
     customDirectives |-> <<>>]

\* (text || '').split(',').map(x => x.trim()), as strings
SplitTrimmed(chars) == Map(Split(chars, ","), LAMBDA x : Str(Trim(x)))

\* The body of convertBlockToLocation's loop for one child.  st holds the
\* location and the customDirectives array (lines).
locationChild(st, child, block) ==
    LET args == child.args
        loc == st.location
        push(line) == [st EXCEPT !.lines = Append(@, line)]
        set(l) == [st EXCEPT !.location = l]
    IN  IF child.type = "directive"
        THEN CASE Str(child.name) = "proxy_pass" ->
                    set([loc EXCEPT !.proxyPass = ArgOr(args, 1, <<>>)])
               [] Str(child.name) = "root" -> push(Passthrough(W.root, args))
               [] Str(child.name) = "alias" ->
                    set([loc EXCEPT !.alias = Str(ArgOr(args, 1, <<>>))])
               [] Str(child.name) = "try_files" ->
                    set([loc EXCEPT !.tryFiles = Str(Join(args, <<" ">>))])
               [] Str(child.name) = "return" ->
                    set([loc EXCEPT !.returnCode = parseIntOr(ArgOr(args, 1, <<>>), 0),
                                    !.returnUrl = ArgOr(args, 2, <<>>)])
               [] Str(child.name) = "proxy_set_header" ->
                    IF Len(args) < 2 THEN st
                    ELSE LET name == Str(args[1])
                             value == Str(Join(Drop(args, 2), <<" ">>))
                         IN  IF \E k \in 1..Len(loc.headers) : loc.headers[k].name = name
                             THEN LET k == Min({j \in 1..Len(loc.headers) :
                                                    loc.headers[j].name = name})
                                  IN  set([loc EXCEPT !.headers[k] =
                                              [@ EXCEPT !.value = value, !.enabled = TRUE]])
                             ELSE set([loc EXCEPT !.headers = Append(@,
                                          [name |-> name, value |-> value, enabled |-> TRUE])])
               [] Str(child.name) = "allow" ->
                    set([loc EXCEPT !.accessControl.allow = @ \o Map(args, Str)])
               [] Str(child.name) = "deny" ->
                    set([loc EXCEPT !.accessControl.deny = @ \o Map(args, Str)])
               [] Str(child.name) = "auth_basic" ->
                    set([loc EXCEPT
                            !.accessControl.authBasic.enabled =
                                (Len(args) = 0 \/ Str(args[1]) # "off"),
                            !.accessControl.authBasic.realm =
                                IF Len(args) >= 1 /\ args[1] # <<>>
                                THEN Str(args[1]) ELSE "Restricted"])
               [] Str(child.name) = "auth_basic_user_file" ->
                    set([loc EXCEPT !.accessControl.authBasic.userFile =
                                        Str(ArgOr(args, 1, <<>>))])
               [] Str(child.name) = "add_header" ->
                    LET first == IF Len(args) >= 1 THEN Str(args[1]) ELSE "" IN
                    IF Len(args) >= 1 /\ first = "Access-Control-Allow-Origin"
                    THEN set([loc EXCEPT !.cors.enabled = TRUE,
                                         !.cors.allowOrigin = Str(ArgOr(args, 2, <<"*">>))])
                    ELSE IF Len(args) >= 1 /\ first = "Access-Control-Allow-Methods"
                    THEN set([loc EXCEPT !.cors.allowMethods =
                                             SplitTrimmed(ArgOr(args, 2, <<>>))])
                    ELSE IF Len(args) >= 1 /\ first = "Access-Control-Allow-Headers"
                    THEN set([loc EXCEPT !.cors.allowHeaders =
                                             SplitTrimmed(ArgOr(args, 2, <<>>))])
                    ELSE push(Passthrough(W.add_header, args))
               [] Str(child.name) = "proxy_http_version" ->
                    IF Len(args) >= 1 /\ Str(args[1]) = "1.1"
                    THEN set([loc EXCEPT !.websocket =
                                 \E k \in 1..Len(block.children) :
                                     /\ block.children[k].type = "directive"
                                     /\ Str(block.children[k].name) = "proxy_set_header"
                                     /\ Len(block.children[k].args) >= 1
                                     /\ Str(block.children[k].args[1]) = "Upgrade"])
                    ELSE st
               [] Str(child.name) = "rewrite" ->
                    IF Len(args) < 2 THEN st
                    ELSE set([loc EXCEPT !.rewrite =
                                 <<[pattern |-> args[1], replacement |-> args[2],
                                    flag |-> Str(ArgOr(args, 3, <<"l","a","s","t">>))]>>])
               [] OTHER -> push(Passthrough(child.name, args))
        ELSE IF Str(child.name) = "location"
        THEN push(CommentLine(W.NestedLocation, Join(args, <<" ">>)))
        ELSE st

\* convertBlockToLocation(block, serverId); n counts the identifiers handed
\* out.  Yields [location, uuid].
convertBlockToLocation(block, serverId, n) ==
    LET mp == parseLocationModifier(block.args)
        start == [createDefaultLocation(uuidv4(n + 2), serverId) EXCEPT
                     !.modifier = mp.modifier, !.path = mp.path]
    IN  Bind(FoldLeft(LAMBDA st, child : locationChild(st, child, block),
                      [location |-> start, lines |-> <<>>], block.children),
             LAMBDA end :
                [location |-> [end.location EXCEPT
                                  !.customDirectives = Join(end.lines, <<"\n">>)],
                 uuid |-> n + 2])

\* The body of convertBlockToServer's loop for one child.  st holds the
\* server, its locations so far, the customDirectives array and the uuid
\* count.
serverChild(st, child) ==
    LET args == child.args
        srv == st.server
        push(line) == [st EXCEPT !.lines = Append(@, line)]
        set(x) == [st EXCEPT !.server = x]
    IN  IF child.type = "directive"
        THEN CASE Str(child.name) = "listen" ->
                    Bind(parseListenDirective(args),
                         LAMBDA l :
                            set([srv EXCEPT
                                    !.listen = [port |-> l.port,
                                                defaultServer |-> l.defaultServer,
                                                http2 |-> l.http2],
                                    !.ssl.enabled = IF l.ssl THEN TRUE ELSE @]))
               [] Str(child.name) = "server_name" ->
                    set([srv EXCEPT !.serverName = Join(args, <<" ">>),
                                    !.name = ArgOr(args, 1, W.Server)])
               [] Str(child.name) = "root" ->
                    set([srv EXCEPT !.root = Str(ArgOr(args, 1, <<>>))])
               [] Str(child.name) = "index" ->
                    set([srv EXCEPT !.index = Map(args, Str)])
               [] Str(child.name) = "ssl_certificate" ->
                    set([srv EXCEPT !.ssl.enabled = TRUE,
                                    !.ssl.certificate = Str(ArgOr(args, 1, <<>>))])
               [] Str(child.name) = "ssl_certificate_key" ->
                    set([srv EXCEPT !.ssl.certificateKey = Str(ArgOr(args, 1, <<>>))])
               [] Str(child.name) = "ssl_protocols" ->
                    set([srv EXCEPT !.ssl.protocols = Map(args, Str)])
               [] Str(child.name) = "ssl_ciphers" ->
                    set([srv EXCEPT !.ssl.ciphers = Str(ArgOr(args, 1, <<>>))])
               [] OTHER -> push(Passthrough(child.name, args))
        ELSE IF Str(child.name) = "location"
        THEN Bind(convertBlockToLocation(child, srv.id, st.uuid),
                  LAMBDA r :
                     [st EXCEPT !.locations = Append(@, r.location), !.uuid = r.uuid])
        ELSE push(CommentLine(W.Block, child.name))

\* convertBlockToServer(block): [server, locations, uuid].
convertBlockToServer(block, n) ==
    LET start == [id |-> uuidv4(n + 1), name |-> W.ImportedServer,
                  listen |-> [port |-> 80, defaultServer |-> FALSE, http2 |-> FALSE],
                  serverName |-> W.localhost, ssl |-> defaultSSLConfig,
                  root |-> "/var/www/html", index |-> <<"index.html", "index.htm">>,
                  customDirectives |-> <<>>]
    IN  Bind(FoldLeft(serverChild,
                      [server |-> start, locations |-> <<>>, lines |-> <<>>,
                       uuid |-> n + 1],
                      block.children),
             LAMBDA end :
                [server |-> [end.server EXCEPT
                                !.customDirectives = Join(end.lines, <<"\n">>)],
                 locations |-> end.locations, uuid |-> end.uuid])

\* The text after the first occurrence of c in chars, up to the next one
\* (arg.split(c)[1]).
SecondPart(chars, c) ==
    LET parts == Split(chars, c) IN IF Len(parts) >= 2 THEN parts[2] ELSE <<>>

\* parseUpstreamServer(args), with the identifier id.
parseUpstreamServer(args, id) ==
    LET server == [id |-> id, weight |-> 1, maxFails |-> 3, failTimeout |-> 30,
                   backup |-> FALSE, down |-> FALSE]
    IN  IF Len(args) = 0 THEN server
        ELSE LET addrPort == args[1]
                 withAddr ==
                     IF \E k \in 1..Len(addrPort) : addrPort[k] = ":"
                     THEN ("address" :> Str(Split(addrPort, ":")[1]))
                              @@ ("port" :> parseIntOr(SecondPart(addrPort, ":"), 80))
                              @@ server
                     ELSE ("address" :> Str(addrPort)) @@ ("port" :> 80) @@ server
             IN  FoldLeft(LAMBDA sv, arg :
                     IF StartsWith(arg, W.weightEq)
                     THEN [sv EXCEPT !.weight = parseIntOr(SecondPart(arg, "="), 1)]
                     ELSE IF StartsWith(arg, W.maxFailsEq)
                     THEN [sv EXCEPT !.maxFails = parseIntOr(SecondPart(arg, "="), 3)]
                     ELSE IF StartsWith(arg, W.failTimeoutEq)
                     THEN [sv EXCEPT !.failTimeout =
                              LET v == SecondPart(arg, "=")
                                  k == RunWhile(v, 1, LAMBDA c : c # "s")
                              IN  parseIntOr(SubSeq(v, 1, k) \o Drop(v, k + 2), 30)]
                     ELSE IF Str(arg) = "backup" THEN [sv EXCEPT !.backup = TRUE]
                     ELSE IF Str(arg) = "down" THEN [sv EXCEPT !.down = TRUE]
                     ELSE sv,
                     withAddr, Drop(args, 2))

\* The body of convertBlockToUpstream's loop for one child.
upstreamChild(st, child) ==
    IF child.type # "directive" THEN st
    ELSE CASE Str(child.name) = "server" ->
                [st EXCEPT !.upstream.servers =
                               Append(@, parseUpstreamServer(child.args, uuidv4(st.uuid + 1))),
                           !.uuid = @ + 1]
           [] Str(child.name) = "ip_hash" -> [st EXCEPT !.upstream.strategy = "ip_hash"]
           [] Str(child.name) = "least_conn" -> [st EXCEPT !.upstream.strategy = "least_conn"]
           [] OTHER -> [st EXCEPT !.lines = Append(@, Passthrough(child.name, child.args))]

\* convertBlockToUpstream(block): [upstream, uuid].
convertBlockToUpstream(block, n) ==
    LET start == [id |-> uuidv4(n + 1), name |-> ArgOr(block.args, 1, W.upstream),
                  strategy |-> "round_robin", servers |-> <<>>, customDirectives |-> <<>>]
    IN  Bind(FoldLeft(upstreamChild,
                      [upstream |-> start, lines |-> <<>>, uuid |-> n + 1],
                      block.children),
             LAMBDA end :
                [upstream |-> [end.upstream EXCEPT
                                  !.customDirectives = Join(end.lines, <<"\n">>)],
                 uuid |-> end.uuid])

\* partial[k] = v on a Partial<...> object
SetField(partial, k, v) == (k :> v) @@ partial

\* if (customDirectives.length > 0) partial.customDirectives = join('\n')
WithLines(partial, lines) ==
    IF Len(lines) > 0 THEN SetField(partial, "customDirectives", Join(lines, <<"\n">>))
    ELSE partial

\* convertDirectivesToGlobal(directives): a Partial<GlobalConfig>.
convertDirectivesToGlobal(directives) ==
    LET step(st, dir) ==
            LET set(k, v) == [st EXCEPT !.partial = SetField(@, k, v)]
            IN  CASE Str(dir.name) = "user" ->
                        set("user", Str(ArgOr(dir.args, 1, <<"n","g","i","n","x">>)))
                  [] Str(dir.name) = "worker_processes" ->
                        set("workerProcesses", Str(ArgOr(dir.args, 1, <<"a","u","t","o">>)))
                  [] Str(dir.name) = "error_log" ->
                        set("errorLog",
                            [path |-> IF Len(dir.args) >= 1 /\ dir.args[1] # <<>>
                                      THEN Str(dir.args[1]) ELSE "/var/log/nginx/error.log",
                             level |-> Str(ArgOr(dir.args, 2, <<"w","a","r","n">>))])
                  [] Str(dir.name) = "pid" ->
                        set("pid", IF Len(dir.args) >= 1 /\ dir.args[1] # <<>>
                                   THEN Str(dir.args[1]) ELSE "/run/nginx.pid")
                  [] OTHER ->
                        [st EXCEPT !.lines = Append(@, Passthrough(dir.name, dir.args))]
    IN  Bind(FoldLeft(step, [partial |-> <<>>, lines |-> <<>>], directives),
             LAMBDA end : WithLines(end.partial, end.lines))

\* convertEventsBlock(block): a Partial<EventsConfig>.
convertEventsBlock(block) ==
    LET step(st, child) ==
            LET set(k, v) == [st EXCEPT !.partial = SetField(@, k, v)]
                args == child.args
            IN  IF child.type # "directive" THEN st
                ELSE CASE Str(child.name) = "worker_connections" ->
                            set("workerConnections", parseIntOr(ArgOr(args, 1, <<>>), 1024))
                       [] Str(child.name) = "use" ->
                            set("use", IF Len(args) >= 1 THEN Str(args[1]) ELSE "undefined")
                       [] Str(child.name) = "multi_accept" ->
                            set("multiAccept", Len(args) >= 1 /\ Str(args[1]) = "on")
                       [] OTHER ->
                            [st EXCEPT !.lines = Append(@, Passthrough(child.name, args))]
    IN  Bind(FoldLeft(step, [partial |-> <<>>, lines |-> <<>>], block.children),
             LAMBDA end : WithLines(end.partial, end.lines))

\* The body of convertHttpBlock's loop for one child.  st holds the
\* Partial<HttpConfig>, the servers, locations and upstreams so far, the
\* customDirectives array and the uuid count.
httpChild(st, child) ==
    LET args == child.args
        set(k, v) == [st EXCEPT !.partial = SetField(@, k, v)]
        on == Len(args) >= 1 /\ Str(args[1]) = "on"
        gzip == IF "gzip" \in DOMAIN st.partial THEN st.partial.gzip
                ELSE defaultHttpConfig.gzip
    IN  IF child.type = "block"
        THEN CASE Str(child.name) = "server" ->
                    Bind(convertBlockToServer(child, st.uuid),
                         LAMBDA r :
                            [st EXCEPT !.servers = Append(@, r.server),
                                       !.locations = @ \o r.locations,
                                       !.uuid = r.uuid])
               [] Str(child.name) = "upstream" ->
                    Bind(convertBlockToUpstream(child, st.uuid),
                         LAMBDA r :
                            [st EXCEPT !.upstreams = Append(@, r.upstream),
                                       !.uuid = r.uuid])
               [] OTHER ->
                    [st EXCEPT !.lines = Append(@, CommentLine(W.Block, child.name))]
        ELSE CASE Str(child.name) = "sendfile" -> set("sendfile", on)
               [] Str(child.name) = "tcp_nopush" -> set("tcpNopush", on)
               [] Str(child.name) = "tcp_nodelay" -> set("tcpNodelay", on)
               [] Str(child.name) = "keepalive_timeout" ->
                    set("keepaliveTimeout", parseIntOr(ArgOr(args, 1, <<>>), 65))
               [] Str(child.name) = "types_hash_max_size" ->
                    set("typesHashMaxSize", parseIntOr(ArgOr(args, 1, <<>>), 2048))
               [] Str(child.name) = "default_type" ->
                    set("defaultType", IF Len(args) >= 1 /\ args[1] # <<>>
                                       THEN Str(args[1]) ELSE "application/octet-stream")
               [] Str(child.name) = "server_tokens" -> set("serverTokens", on)
               [] Str(child.name) = "client_max_body_size" ->
                    set("clientMaxBodySize", IF Len(args) >= 1 /\ args[1] # <<>>
                                             THEN Str(args[1]) ELSE "10m")
               [] Str(child.name) = "gzip" ->
                    set("gzip", [gzip EXCEPT !.enabled = on])
               [] Str(child.name) = "gzip_comp_level" ->
                    set("gzip", [gzip EXCEPT !.compLevel = parseIntOr(ArgOr(args, 1, <<>>), 6)])
               [] Str(child.name) = "gzip_min_length" ->
                    set("gzip", [gzip EXCEPT !.minLength =
                                    parseIntOr(ArgOr(args, 1, <<>>), 1024)])
               [] Str(child.name) = "gzip_types" ->
                    set("gzip", [gzip EXCEPT !.types = Map(args, Str)])
               [] Str(child.name) = "include" -> st
               [] OTHER -> [st EXCEPT !.lines = Append(@, Passthrough(child.name, args))]

\* convertHttpBlock(block): [http, servers, locations, upstreams, uuid].
convertHttpBlock(block, n) ==
    Bind(FoldLeft(httpChild,
                  [partial |-> <<>>, servers |-> <<>>, locations |-> <<>>,
                   upstreams |-> <<>>, lines |-> <<>>, uuid |-> n],
                  block.children),
         LAMBDA end :
            [http |-> WithLines(end.partial, end.lines), servers |-> end.servers,
             locations |-> end.locations, upstreams |-> end.upstreams,
             uuid |-> end.uuid])

\* The body of parseNginxConfig's loop over the root blocks (lines 735-754).
\* st holds the config and the uuid count.
rootBlock(st, block) ==
    CASE Str(block.name) = "events" ->
            [st EXCEPT !.config.events = Merge(@, convertEventsBlock(block))]
      [] Str(block.name) = "http" ->
            Bind(convertHttpBlock(block, st.uuid),
                 LAMBDA r :
                    [st EXCEPT !.config.http = Merge(@, r.http),
                               !.config.servers = @ \o r.servers,
                               !.config.locations = @ \o r.locations,
                               !.config.upstreams = @ \o r.upstreams,
                               !.uuid = r.uuid])
      [] Str(block.name) = "upstream" ->
            Bind(convertBlockToUpstream(block, st.uuid),
                 LAMBDA r :
                    [st EXCEPT !.config.upstreams = Append(@, r.upstream),
                               !.uuid = r.uuid])
      [] Str(block.name) = "server" ->
            Bind(convertBlockToServer(block, st.uuid),
                 LAMBDA r :
                    [st EXCEPT !.config.servers = Append(@, r.server),
                               !.config.locations = @ \o r.locations,
                               !.uuid = r.uuid])
      [] OTHER -> st

\* location.proxyPass.match(/http:\/\/([^\/]+)/): the captured name, as a
\* sequence of length 0 (no match) or 1.
upstreamMatch(proxyPass) ==
    LET re == Lit(W.httpScheme, FALSE) \o <<Cls({"/"}, TRUE, 1, -1)>>
    IN  Bind(Force([k \in 1..Len(proxyPass) |-> MatchFrom(re, 1, proxyPass, k)],
                   Len(proxyPass)),
             LAMBDA ends :
                LET at == {k \in 1..Len(ends) : ends[k] # 0}
                IN  IF at = {} THEN <<>>
                    ELSE <<SubSeq(proxyPass, Min(at) + Len(W.httpScheme),
                                  ends[Min(at)] - 1)>>)

\* parseNginxConfig without the link of locations to upstreams.
linkNothing(cfg) == cfg

\* Link locations to upstreams by proxy_pass (lines 757-769).
linkUpstreams(cfg) ==
    LET link(location) ==
            Bind(IF location.proxyPass # <<>> THEN upstreamMatch(location.proxyPass)
                 ELSE <<>>,
                 LAMBDA m :
                    Bind(IF m = <<>> THEN <<>>
                         ELSE Find(cfg.upstreams, LAMBDA u : u.name = m[1]),
                         LAMBDA upstream :
                            IF upstream # <<>>
                            THEN [location EXCEPT !.upstreamId = upstream[1].id]
                            ELSE location))
    IN  [cfg EXCEPT !.locations = Map(cfg.locations, link)]

\* parseNginxConfig after parseRoot has returned { directives, blocks }.
buildConfig(configString, root) ==
    LET start == [global |-> Merge(defaultGlobalConfig,
                                   convertDirectivesToGlobal(root.directives)),
                  events |-> defaultEventsConfig, http |-> defaultHttpConfig,
                  upstreams |-> <<>>, servers |-> <<>>, locations |-> <<>>,
                  rawConfig |-> configString]
        end == FoldLeft(rootBlock, [config |-> start, uuid |-> 0], root.blocks)
    IN  linkUpstreams(end.config)

\* parseRoot's result so far: { directives, blocks }.
emptyRoot == [directives |-> <<>>, blocks |-> <<>>]

\* The body of parseRoot's while loop: one parseStatement and the push of
\* its node.  Yields [kind, pos, root, error] with parseStatement's kind.
rootStep(toks, p, root) ==
    Bind(parseStatement(toks, p),
         LAMBDA r :
            [kind |-> r.kind, pos |-> r.pos, error |-> r.error,
             root |-> IF r.kind # "node" THEN root
                      ELSE IF r.node.type = "block"
                      THEN [root EXCEPT !.blocks = Append(@, r.node)]
                      ELSE [root EXCEPT !.directives = Append(@, r.node)]])

\* parseRoot run to its end: [kind, root, error], kind "ok", "error" (it
\* threw) or "diverges": an iteration changed nothing, so that the loop
\* repeats it for ever.
RECURSIVE parseRootFrom(_, _, _)
parseRootFrom(toks, p, root) ==
    IF current(toks, p).type = "EOF" THEN [kind |-> "ok", root |-> root, error |-> <<>>]
    ELSE Bind(rootStep(toks, p, root),
              LAMBDA r :
                 IF r.kind = "error" THEN [kind |-> "error", root |-> root, error |-> r.error]
                 ELSE IF r.kind = "null"
                 THEN [kind |-> "diverges", root |-> root, error |-> <<>>]
                 ELSE parseRootFrom(toks, r.pos, r.root))
parseRoot(toks) == parseRootFrom(toks, 1, emptyRoot)

\* parseNginxConfig(configString): [kind, config, error].
parseNginxConfig(configString) ==
    Bind(tokenize(configString),
         LAMBDA t :
            IF t.error # <<>> THEN [kind |-> "error", config |-> <<>>, error |-> t.error]
            ELSE Bind(parseRoot(t.tokens),
                      LAMBDA r :
                         IF r.kind # "ok"
                         THEN [kind |-> r.kind, config |-> <<>>, error |-> r.error]
                         ELSE [kind |-> "ok", config |-> buildConfig(configString, r.root),
                               error |-> <<>>]))

----------------------------------------------------------------------------
(* parseNginxConfig as a process: one step per iteration of tokenize's     *)
(* loop and of parseRoot's loop.                                           *)

MaxLen == 4          \* length of the exhaustively enumerated inputs
MaxRootIters == 6    \* iterations of parseRoot's loop that are followed

Alphabet == {"a", " ", ";", "{", "}", "\"", "#", "\n", "\\"}
ShortInputs == UNION {[1..n -> Alphabet] : n \in 0..MaxLen}

\* Statements placed in each scope of a configuration text.
Statements ==
    {<<"f","o","o"," ","b","a","r",";">>,
     <<"f","o","o"," ","\"","a"," ","b","\"",";">>,
     <<"f","o","o"," ","'","x",";","y","'",";">>,
     <<"f","o","o"," ","\"","{","\"",";">>,
     <<"f","o","o"," ","\"","a","#","b","\"",";">>,
     <<"f","o","o"," ","'","q","\"","r","'",";">>,
     <<"f","o","o",";">>,
     <<"i","n","c","l","u","d","e"," ","m",";">>,
     <<"r","e","t","u","r","n"," ","3","0","1"," ","/","a",";"," ","r","e","t","u","r","n"," ","3","0","2"," ","/","b",";">>,
     <<"r","e","w","r","i","t","e"," ","a",";">>,
     <<"p","r","o","x","y","_","s","e","t","_","h","e","a","d","e","r"," ","H",";">>,
     <<"t","y","p","e","s"," ","{"," ","a"," ","b",";"," ","}">>,
     <<"l","o","c","a","t","i","o","n"," ","/","n"," ","{"," ","f","o","o"," ","b",";"," ","}">>,
     <<"x"," ","1",";","\n","y"," ","2",";">>}

I ==
    [eventsOpen |-> <<"e","v","e","n","t","s"," ","{"," ">>, httpOpen |-> <<"h","t","t","p"," ","{","\n">>, serverOpen |-> <<"s","e","r","v","e","r"," ","{"," ">>,
     locationOpen |-> <<"l","o","c","a","t","i","o","n"," ","/"," ","{"," ">>, upstreamOpen |-> <<"u","p","s","t","r","e","a","m"," ","u"," ","{"," ">>, close |-> <<" ","}">>]

Scopes == {"global", "events", "http", "server", "location", "upstream"}

\* The statement x written in the given scope.
Wrap(scope, x) ==
    CASE scope = "global" -> x
      [] scope = "events" -> I.eventsOpen \o x \o I.close
      [] scope = "http" -> I.httpOpen \o x \o I.close
      [] scope = "server" -> I.httpOpen \o I.serverOpen \o x \o I.close \o I.close
      [] scope = "location" -> I.serverOpen \o I.locationOpen \o x \o I.close \o I.close
      [] scope = "upstream" -> I.upstreamOpen \o x \o I.close

StructuredInputs == {Wrap(scope, x) : scope \in Scopes, x \in Statements}

FixOff ==
    /\ config = <<>> /\ uuid = 0 /\ pc = "idle" /\ hasChanges = FALSE
    /\ iterations = 0 /\ last = NoOp /\ ops = 0

InitParse ==
    /\ input \in ShortInputs \cup StructuredInputs
    /\ lex = lexStart /\ tokens = <<>> /\ pos = 0 /\ ast = emptyRoot
    /\ status = "lex" /\ rootIters = 0 /\ thrown = <<>> /\ parsed = <<>>
    /\ FixOff
    /\ MatchOff
    /\ CleanerOff
    /\ StoreOff

\* One iteration of tokenize's while loop.
LexIter ==
    /\ status = "lex" /\ lex.pos <= Len(input)
    /\ \E next \in {lexStep(input, lex)} :
           /\ lex' = next
           /\ IF next.error # <<>>
              THEN status' = "error" /\ thrown' = next.error
              ELSE UNCHANGED <<status, thrown>>
    /\ UNCHANGED <<input, tokens, pos, ast, rootIters, parsed>>
    /\ UNCHANGED fixVars
    /\ UNCHANGED matchVars
    /\ UNCHANGED cleanerVars
    /\ UNCHANGED storeVars

\* tokenize returns; the Parser is constructed.
LexReturn ==
    /\ status = "lex" /\ lex.pos > Len(input)
    /\ tokens' = lexEnd(lex)
    /\ pos' = 1
    /\ status' = "parse"
    /\ UNCHANGED <<input, lex, ast, rootIters, thrown, parsed>>
    /\ UNCHANGED fixVars
    /\ UNCHANGED matchVars
    /\ UNCHANGED cleanerVars
    /\ UNCHANGED storeVars

\* One iteration of parseRoot's while loop.
ParseRootIter ==
    /\ status = "parse" /\ current(tokens, pos).type # "EOF"
    /\ rootIters < MaxRootIters
    /\ \E r \in {rootStep(tokens, pos, ast)} :
           /\ IF r.kind = "error"
              THEN status' = "error" /\ thrown' = r.error /\ UNCHANGED <<pos, ast>>
              ELSE pos' = r.pos /\ ast' = r.root /\ UNCHANGED <<status, thrown>>
    /\ rootIters' = rootIters + 1
    /\ UNCHANGED <<input, lex, tokens, parsed>>
    /\ UNCHANGED fixVars
    /\ UNCHANGED matchVars
    /\ UNCHANGED cleanerVars
    /\ UNCHANGED storeVars

\* parseRoot returns; parseNginxConfig converts the AST and returns the config.
ParseRootReturn ==
    /\ status = "parse" /\ current(tokens, pos).type = "EOF"
    /\ parsed' = buildConfig(input, ast)
    /\ status' = "ok"
    /\ UNCHANGED <<input, lex, tokens, pos, ast, rootIters, thrown>>
    /\ UNCHANGED fixVars
    /\ UNCHANGED matchVars
    /\ UNCHANGED cleanerVars
    /\ UNCHANGED storeVars

NextParse == LexIter \/ LexReturn \/ ParseRootIter \/ ParseRootReturn

SpecParse == InitParse /\ [][NextParse]_vars

----------------------------------------------------------------------------
(* The parser: properties                                                  *)

Range(seq) == {seq[k] : k \in DOMAIN seq}

\* Open blocks after the first k tokens: the { minus the } among them.
BraceDepth(toks, k) ==
    Cardinality({j \in 1..k : toks[j].type = "LBRACE"})
        - Cardinality({j \in 1..k : toks[j].type = "RBRACE"})

\* Every } closes an open block and no block is open at the end of input.
Balanced(toks) ==
    /\ \A k \in 1..Len(toks) : BraceDepth(toks, k) >= 0
    /\ BraceDepth(toks, Len(toks)) = 0

\* C8: an input whose braces are unbalanced is never accepted, and
\* parseRoot's loop on it ends: it makes no more iterations than there are
\* tokens (every iteration that returns consumes at least one).
C8_UnbalancedRejected ==
    (status # "lex" /\ tokens # <<>> /\ ~Balanced(tokens))
        => (status # "ok" /\ rootIters <= Len(tokens))

\* The blocks named name among the children of a block.
ChildBlocks(b, name) ==
    {c \in Range(b.children) : c.type = "block" /\ Str(c.name) = name}

\* The scopes of a parsed text with the statements written in each:
\* records [scope, children].
Containers(root) ==
    LET rootBlocks(name) == {b \in Range(root.blocks) : Str(b.name) = name}
        https == rootBlocks("http")
        servers == rootBlocks("server") \cup UNION {ChildBlocks(h, "server") : h \in https}
        upstreams == rootBlocks("upstream")
                         \cup UNION {ChildBlocks(h, "upstream") : h \in https}
        locationBlocks == UNION {ChildBlocks(sv, "location") : sv \in servers}
        in(scope, blocks) == {[scope |-> scope, children |-> b.children] : b \in blocks}
    IN  {[scope |-> "global", children |-> root.directives \o root.blocks]}
            \cup in("events", rootBlocks("events")) \cup in("http", https)
            \cup in("server", servers) \cup in("location", locationBlocks)
            \cup in("upstream", upstreams)

\* The entities of a config that own the statements of a scope.
Owners(cfg, scope) ==
    CASE scope = "global" -> {cfg.global}
      [] scope = "events" -> {cfg.events}
      [] scope = "http" -> {cfg.http}
      [] scope = "server" -> Range(cfg.servers)
      [] scope = "location" -> Range(cfg.locations)
      [] scope = "upstream" -> Range(cfg.upstreams)

\* The directive names each scope's switch has a case for.
Handlers(scope) ==
    CASE scope = "global" -> {"user", "worker_processes", "error_log", "pid"}
      [] scope = "events" -> {"worker_connections", "use", "multi_accept"}
      [] scope = "http" ->
            {"sendfile", "tcp_nopush", "tcp_nodelay", "keepalive_timeout",
             "types_hash_max_size", "default_type", "server_tokens",
             "client_max_body_size", "gzip", "gzip_comp_level", "gzip_min_length",
             "gzip_types", "include"}
      [] scope = "server" ->
            {"listen", "server_name", "root", "index", "ssl_certificate",
             "ssl_certificate_key", "ssl_protocols", "ssl_ciphers"}
      [] scope = "location" ->
            {"proxy_pass", "root", "alias", "try_files", "return", "proxy_set_header",
             "allow", "deny", "auth_basic", "auth_basic_user_file", "add_header",
             "proxy_http_version", "rewrite"}
      [] scope = "upstream" -> {"server", "ip_hash", "least_conn"}

\* The passthrough text of an entity, parsed again, holds the directive d.
RoundTrips(d, owner) ==
    \A t \in {tokenize(owner.customDirectives)} :
        /\ t.error = <<>>
        /\ \A r \in {parseRoot(t.tokens)} :
              /\ r.kind = "ok"
              /\ \E k \in 1..Len(r.root.directives) :
                    /\ r.root.directives[k].name = d.name
                    /\ r.root.directives[k].args = d.args

\* C9: after a successful parse, every directive whose name has no handler
\* in its scope is in the customDirectives of an entity of that scope as
\* `name arg1 ... argN;`, and tokenizing and parsing that text again yields
\* a directive with the same name and the same arguments.
C9_UnknownRoundTrip ==
    status = "ok" =>
        \A c \in Containers(ast) : \A d \in Range(c.children) :
            (d.type = "directive" /\ Str(d.name) \notin Handlers(c.scope))
                => \E o \in Owners(parsed, c.scope) :
                      /\ Includes(o.customDirectives, Passthrough(d.name, d.args))
                      /\ RoundTrips(d, o)

\* The directive at index k of a scope's children is kept by the config:
\* its text is in the customDirectives of an entity of the scope, or its
\* handler stores it in a field (and no later directive of the same name
\* replaces what a location's return or rewrite stored).
DirectiveKept(cfg, scope, children, k) ==
    LET d == children[k]
        name == Str(d.name)
    IN  \/ \E o \in Owners(cfg, scope) :
              Includes(o.customDirectives, Passthrough(d.name, d.args))
        \/ /\ name \in Handlers(scope)
           /\ ~(scope = "http" /\ name = "include")
           /\ (scope = "location" /\ name \in {"proxy_set_header", "rewrite"})
                 => Len(d.args) >= 2
           /\ (scope = "location" /\ name \in {"return", "rewrite"})
                 => ~\E j \in (k + 1)..Len(children) :
                        children[j].type = "directive" /\ children[j].name = d.name

\* The block b of a scope is kept by the config: it is converted to an
\* entity, or an entity's customDirectives holds its name and its child
\* directives.
BlockKept(cfg, scope, b) ==
    \/ scope = "global" /\ Str(b.name) \in {"events", "http", "upstream", "server"}
    \/ scope = "http" /\ Str(b.name) \in {"server", "upstream"}
    \/ scope = "server" /\ Str(b.name) = "location"
    \/ \E o \in Owners(cfg, scope) :
          /\ Includes(o.customDirectives, b.name)
          /\ \A c \in Range(b.children) :
                c.type = "directive"
                    => Includes(o.customDirectives, Passthrough(c.name, c.args))

\* C10: after a successful parse, every directive and every block of the
\* input is mapped to a field or an entity of the config, or is in some
\* entity's customDirectives with its arguments and its children.
C10_NoStatementDropped ==
    status = "ok" =>
        \A c \in Containers(ast) : \A k \in 1..Len(c.children) :
            IF c.children[k].type = "directive"
            THEN DirectiveKept(parsed, c.scope, c.children, k)
            ELSE BlockKept(parsed, c.scope, c.children[k])

----------------------------------------------------------------------------
(* The location matcher (fixService.ts, matchLocation).                    *)
(* A location's path is a character sequence; under the modifiers ~ and ~* *)
(* it is the source text of a regular expression.  RegExp compiles the     *)
(* part of the RegExp syntax that PatternAlphabet can spell: literals, the *)
(* assertions ^ and $, the atom `.`, the quantifier `*` and the opening    *)
(* parenthesis `(`, which no pattern over this alphabet can close.         *)

PatternAlphabet == {"/", "a", "A", "^", "$", ".", "*", "("}

\* A RegExp constructor that accepts every pattern.
NoSyntaxError(pattern) == FALSE

\* new RegExp(pattern) throws a SyntaxError: an unterminated group, or a `*`
\* with nothing to repeat (at the start, after an assertion, or after `*`).
RegExpSyntaxError(pattern) ==
    \E j \in 1..Len(pattern) :
        \/ pattern[j] = "("
        \/ pattern[j] = "*" /\ (j = 1 \/ pattern[j - 1] \in {"*", "^", "$"})

\* The characters a literal of the pattern accepts (both cases under `i`).
CaseFold(c, ci) ==
    IF ci THEN {c, Lower(c)} \cup {u \in DOMAIN LowerMap : LowerMap[u] = c} ELSE {c}

\* new RegExp(pattern, ci ? 'i' : '') for a pattern that compiles.  Without
\* the m flag ^ and $ stand at the ends of the input; request paths hold no
\* line terminator, so the line anchors of MatchFrom are the same positions.
RegExp(pattern, ci) ==
    LET atoms == SelectSeq([j \in 1..Len(pattern) |->
                               [c |-> pattern[j],
                                star |-> j < Len(pattern) /\ pattern[j + 1] = "*"]],
                           LAMBDA a : a.c # "*")
        item(a) ==
            CASE a.c = "^" -> Bol
              [] a.c = "$" -> Eol
              [] a.c = "." -> Cls({"\n", "\r"}, TRUE, IF a.star THEN 0 ELSE 1,
                                  IF a.star THEN -1 ELSE 1)
              [] OTHER -> Cls(CaseFold(a.c, ci), FALSE, IF a.star THEN 0 ELSE 1,
                              IF a.star THEN -1 ELSE 1)
    IN  [j \in 1..Len(atoms) |-> item(atoms[j])]

\* MatchResult (priorityLabel and matchReason are display texts derived from
\* priority and the location; they are not modelled).  matchedLocation is a
\* sequence of length 0 (null) or 1.
MatchResult(matchedLocation, priority) ==
    [matchedLocation |-> matchedLocation, priority |-> priority]

\* Step 1 returning the last exact location instead of the first.
exactMatchLast(path, locs) ==
    LET hits == {i \in 1..Len(locs) : locs[i].modifier = "=" /\ locs[i].path = path}
    IN  IF hits = {} THEN <<>> ELSE <<locs[Max(hits)]>>

\* Step 1: the first location with modifier = whose path is the request path.
exactMatch(path, locs) ==
    LET hits == {i \in 1..Len(locs) : locs[i].modifier = "=" /\ locs[i].path = path}
    IN  IF hits = {} THEN <<>> ELSE <<locs[Min(hits)]>>

\* Step 2, one iteration of the loop over the locations.
bestPrefixStep(path, best, loc) ==
    IF /\ loc.modifier \in {"", "^~"}
       /\ StartsWith(path, loc.path)
       /\ Len(loc.path) > best.bestPrefixLength
    THEN [bestPrefixNode |-> <<loc>>, bestPrefixLength |-> Len(loc.path)]
    ELSE best

\* Step 2: bestPrefixNode and bestPrefixLength after the loop.
bestPrefix(path, locs) ==
    FoldLeft(LAMBDA best, loc : bestPrefixStep(path, best, loc),
             [bestPrefixNode |-> <<>>, bestPrefixLength |-> 0], locs)

\* Step 4, the body of the try block for one location: the pattern compiles
\* and tests true (a SyntaxError is caught and the location skipped).
regexHit(path, loc) ==
    /\ loc.modifier \in {"~", "~*"}
    /\ ~RegExpSyntaxError(loc.path)
    /\ Test(RegExp(loc.path, loc.modifier = "~*"), path)

\* Step 4 returning the last regex location that tests true.
regexMatchLast(path, locs) ==
    LET hits == {i \in 1..Len(locs) : regexHit(path, locs[i])}
    IN  IF hits = {} THEN <<>> ELSE <<locs[Max(hits)]>>

\* Step 4: the first regex location, in list order, whose pattern tests true.
regexMatch(path, locs) ==
    LET hits == {i \in 1..Len(locs) : regexHit(path, locs[i])}
    IN  IF hits = {} THEN <<>> ELSE <<locs[Min(hits)]>>

\* matchLocation(requestPath, locations)
matchLocation(path, locs) ==
    Bind(exactMatch(path, locs), LAMBDA exact :
      IF exact # <<>> THEN MatchResult(exact, "exact")
      ELSE Bind(bestPrefix(path, locs), LAMBDA best :
        IF best.bestPrefixNode # <<>> /\ best.bestPrefixNode[1].modifier = "^~"
        THEN MatchResult(best.bestPrefixNode, "prefix-priority")
        ELSE Bind(regexMatch(path, locs), LAMBDA regex :
          IF regex # <<>> THEN MatchResult(regex, "regex")
          ELSE IF best.bestPrefixNode # <<>>
               THEN MatchResult(best.bestPrefixNode, "prefix")
               ELSE MatchResult(<<>>, "none"))))

----------------------------------------------------------------------------
(* matchLocation as a process: called once on a request path and a list of *)
(* at most MaxLocations locations.                                         *)

MaxLocations == 3

RequestPaths ==
    {<<>>, <<"/">>, <<"/", "a">>, <<"/", "A">>, <<"/", "a", "a">>, <<"/", "a", "/">>}

ExactPaths == {<<"/">>, <<"/", "a">>}
PrefixPaths == {<<>>, <<"/">>, <<"/", "a">>}
Patterns == {<<"a", "$">>, <<"^", "/", "A">>, <<".", "*", "/">>, <<"(">>, <<"*">>}

\* A location of the match inputs: a LocationConfig with the given modifier.
LocationChoices ==
    {[modifier |-> "=", path |-> p] : p \in ExactPaths}
        \cup {[modifier |-> m, path |-> p] : m \in {"", "^~"}, p \in PrefixPaths}
        \cup {[modifier |-> m, path |-> p] : m \in {"~", "~*"}, p \in Patterns}

LocationLists ==
    UNION {{[i \in 1..n |->
                [Location(uuidv4(i), "srv", c[i].path)
                    EXCEPT !.modifier = c[i].modifier]] :
            c \in [1..n -> LocationChoices]} : n \in 0..MaxLocations}

InitMatch ==
    /\ requestPath \in RequestPaths
    /\ locations \in LocationLists
    /\ matchResult = <<>>
    /\ FixOff
    /\ ParseOff
    /\ CleanerOff
    /\ StoreOff

\* result = matchLocation(requestPath, locations)
MatchLocation ==
    /\ matchResult = <<>>
    /\ matchResult' = <<matchLocation(requestPath, locations)>>
    /\ UNCHANGED <<requestPath, locations>>
    /\ UNCHANGED fixVars
    /\ UNCHANGED parseVars
    /\ UNCHANGED cleanerVars
    /\ UNCHANGED storeVars

NextMatch == MatchLocation

SpecMatch == InitMatch /\ [][NextMatch]_vars

----------------------------------------------------------------------------
(* Properties of the location matcher.                                     *)

Matched == matchResult # <<>>

\* The positions of the exact locations whose path is the request path.
ExactIndexes ==
    {i \in 1..Len(locations) :
        locations[i].modifier = "=" /\ locations[i].path = requestPath}

\* Claim C11: when the list holds a location with modifier = whose path is
\* the request path, matchLocation returns the first such location in list
\* order with priority 'exact', whatever the other locations are.
C11_ExactFirst ==
    Matched /\ ExactIndexes # {} =>
        matchResult[1] = MatchResult(<<locations[Min(ExactIndexes)]>>, "exact")

\* Two exact locations for the request path stand behind a regex location
\* that tests true, and matchLocation has returned.
C11_Witness ==
    /\ Matched
    /\ Cardinality(ExactIndexes) = 2
    /\ 1 \notin ExactIndexes
    /\ regexHit(requestPath, locations[1])

\* The positions of the locations with modifier '' or ^~ whose path the
\* request path starts with, and the first declared of the longest of them.
PrefixCandidates ==
    {i \in 1..Len(locations) :
        /\ locations[i].modifier \in {"", "^~"}
        /\ StartsWith(requestPath, locations[i].path)}
LongestPrefix ==
    CHOOSE i \in PrefixCandidates : \A j \in PrefixCandidates :
        \/ Len(locations[j].path) < Len(locations[i].path)
        \/ Len(locations[j].path) = Len(locations[i].path) /\ i <= j

\* The positions of the ~ and ~* locations whose pattern matches the path.
RegexIndexes == {i \in 1..Len(locations) : regexHit(requestPath, locations[i])}

\* Claim C12: when no exact location equals the request path and the longest
\* prefix candidate (modifier '' or ^~, path a prefix of the request path)
\* has modifier ^~, matchLocation returns it with priority
\* 'prefix-priority' even when a regex location matches; when the longest
\* candidate has modifier '', a shorter ^~ candidate does not suppress the
\* regex scan.
C12_PrefixPriority ==
    Matched /\ ExactIndexes = {} /\ PrefixCandidates # {} =>
        /\ locations[LongestPrefix].modifier = "^~" =>
               matchResult[1] =
                   MatchResult(<<locations[LongestPrefix]>>, "prefix-priority")
        /\ locations[LongestPrefix].modifier = "" /\ RegexIndexes # {} =>
               matchResult[1].priority = "regex"

\* Claim C13: when no exact location applies and the best prefix candidate
\* is absent or has modifier '', matchLocation returns with priority 'regex'
\* the first location in declaration order with modifier ~ or ~* whose
\* pattern matches the request path (~* without regard to case), even when
\* a plain prefix location with a longer path also matches.
C13_FirstRegex ==
    /\ Matched /\ ExactIndexes = {} /\ RegexIndexes # {}
    /\ PrefixCandidates = {} \/ locations[LongestPrefix].modifier = ""
    => matchResult[1] = MatchResult(<<locations[Min(RegexIndexes)]>>, "regex")

\* The request path /a is routed to the ~* location ^/A, declared before a
\* second regex location that matches and after a plain prefix location /a.
C13_Witness ==
    /\ Matched
    /\ requestPath = <<"/", "a">>
    /\ matchResult[1].priority = "regex"
    /\ matchResult[1].matchedLocation[1].modifier = "~*"
    /\ matchResult[1].matchedLocation[1].path = <<"^", "/", "A">>
    /\ Cardinality(RegexIndexes) = 2
    /\ PrefixCandidates # {}
    /\ locations[LongestPrefix].path = <<"/", "a">>

\* Claim C14: when no exact and no regex location matches, matchLocation
\* returns the location with modifier '' or ^~ whose path is the longest
\* prefix of the request path (the first declared of that length), and the
\* result is null with priority 'none' only when no such location has a
\* path the request path starts with; an empty path is a prefix like any
\* other.
C14_LongestPrefix ==
    Matched =>
        /\ ExactIndexes = {} /\ RegexIndexes = {} /\ PrefixCandidates # {} =>
               /\ matchResult[1].matchedLocation = <<locations[LongestPrefix]>>
               /\ matchResult[1].priority \in {"prefix", "prefix-priority"}
        /\ matchResult[1].priority = "none" =>
               matchResult[1].matchedLocation = <<>> /\ PrefixCandidates = {}

\* The patterns of the match inputs that new RegExp rejects.
InvalidPatterns == {<<"(">>, <<"*">>}

\* The list without its i-th element.
Without(locs, i) == SubSeq(locs, 1, i - 1) \o SubSeq(locs, i + 1, Len(locs))

\* Claim C15: matchLocation returns a result for every path and list (one
\* of the five priorities); a ~ or ~* location whose pattern does not
\* compile is skipped, the result being that for the list without it;
\* matchedLocation is null exactly when the priority is 'none' and
\* otherwise is an element of the list.
C15_NeverFails ==
    Matched =>
        /\ matchResult[1].priority \in
               {"exact", "prefix-priority", "regex", "prefix", "none"}
        /\ (matchResult[1].matchedLocation = <<>>) = (matchResult[1].priority = "none")
        /\ matchResult[1].matchedLocation # <<>> =>
               \E i \in 1..Len(locations) :
                   matchResult[1].matchedLocation[1] = locations[i]
        /\ \A i \in 1..Len(locations) :
               /\ locations[i].modifier \in {"~", "~*"}
               /\ locations[i].path \in InvalidPatterns
               => matchResult[1] = matchLocation(requestPath, Without(locations, i))

\* A location whose pattern does not compile stands before a regex location
\* that matches, and matchLocation has returned the latter.
C15_Witness ==
    /\ Matched
    /\ Len(locations) >= 2
    /\ locations[1].modifier \in {"~", "~*"}
    /\ locations[1].path \in InvalidPatterns
    /\ matchResult[1].priority = "regex"
    /\ matchResult[1].matchedLocation[1] = locations[2]

----------------------------------------------------------------------------
(* ConfigCleaner.removeDirective as a process: called up to MaxCalls times *)
(* with one key on a text of at most MaxLines lines, each call on the text *)
(* the previous call returned.                                             *)

MaxCalls == 2
MaxLines == 3

\* The strings of the cleaner inputs.
K ==
    [
     ssl |-> <<"s","s","l">>,
     ssl_session_cache |-> <<"s","s","l","_","s","e","s","s","i","o","n","_","c","a","c","h","e">>,
     Host |-> <<"H","o","s","t">>,
     HostSuffix |-> <<"-","P","o","r","t">>,
     ReportSuffix |-> <<"-","R","e","p","o","r","t">>,
     on |-> <<" ","o","n">>,
     comment |-> <<" ","#"," ","c">>,
     indent |-> <<" "," ">>,
     other |-> <<"i","n","d","e","x"," ","a",";">>
    ]

CleanerKeys ==
    {S.gzip, K.ssl, D.ssl_certificate, S.add_header_ \o S.XFrameOptions,
     S.proxy_set_header_ \o K.Host}

\* A directive name that merely starts with the key.
LongerName(key) ==
    CASE key = S.gzip -> S.gzip_types
      [] key = K.ssl -> K.ssl_session_cache
      [] key = D.ssl_certificate -> D.ssl_certificate_key
      [] key = S.add_header_ \o S.XFrameOptions -> key \o K.ReportSuffix
      [] key = S.proxy_set_header_ \o K.Host -> key \o K.HostSuffix

\* The lines whose directive name is the key: terminated, lacking the `;`,
\* carrying a comment after the `;`, and indented.
KeyLines(key) ==
    {key \o K.on \o <<";">>, key \o K.on, key \o K.on \o <<";">> \o K.comment,
     K.indent \o key \o K.on \o <<";">>}

LongerLine(key) == LongerName(key) \o K.on \o <<";">>

CleanerLines(key) == KeyLines(key) \cup {LongerLine(key), K.other, <<>>}

CleanerTexts(key) ==
    UNION {{Join(ls, <<"\n">>) : ls \in [1..n -> CleanerLines(key)]} : n \in 1..MaxLines}

InitRemove ==
    /\ cleanerVia = "removeDirective" /\ fixUpdate = <<>>
    /\ StoreOff
    /\ cleanerKey \in CleanerKeys
    /\ cleanerTexts \in {<<t>> : t \in CleanerTexts(cleanerKey)}
    /\ FixOff
    /\ ParseOff
    /\ MatchOff

\* text = ConfigCleaner.removeDirective(text, key)
RemoveDirective ==
    /\ Len(cleanerTexts) <= MaxCalls
    /\ cleanerTexts' =
           Append(cleanerTexts,
                  removeDirective(cleanerTexts[Len(cleanerTexts)], cleanerKey))
    /\ UNCHANGED <<cleanerVia, cleanerKey, fixUpdate>>
    /\ UNCHANGED storeVars
    /\ UNCHANGED fixVars
    /\ UNCHANGED parseVars
    /\ UNCHANGED matchVars

NextRemove == RemoveDirective

SpecRemove == InitRemove /\ [][NextRemove]_vars

----------------------------------------------------------------------------
(* Properties of removeDirective.                                          *)

\* Claim C16: removeDirective is idempotent: for every text and key (plain
\* directive names and the add_header / proxy_set_header forms) a second
\* call with the same key returns what the first call returned.
C16_RemoveIdempotent ==
    Len(cleanerTexts) = 3 => cleanerTexts[3] = cleanerTexts[2]

\* The first call removed a line of the key and kept another line, and the
\* second call has returned.
C16_Witness ==
    /\ Len(cleanerTexts) = 3
    /\ cleanerTexts[2] # <<>>
    /\ cleanerTexts[2] # Trim(cleanerTexts[1])
    /\ \E l \in KeyLines(cleanerKey) : Includes(cleanerTexts[1], l)

\* The lines of a text without surrounding white space, blank lines dropped.
LinesOf(t) ==
    SelectSeq([i \in 1..Len(Split(t, "\n")) |-> Trim(Split(t, "\n")[i])],
              LAMBDA l : l # <<>>)

TrimmedKeyLines(key) == {Trim(l) : l \in KeyLines(key)}

\* Claim C17: removeDirective(T, K) removes every line of T whose directive
\* name is K -- every occurrence, also a line with a comment after its `;`
\* and a line without the `;` -- and nothing else: the lines of the other
\* directives are all in the result, complete and in their order.
C17_RemovesExactlyKeyLines ==
    Len(cleanerTexts) >= 2 =>
        LinesOf(cleanerTexts[2]) =
            SelectSeq(LinesOf(cleanerTexts[1]),
                      LAMBDA l : l \notin TrimmedKeyLines(cleanerKey))

\* Claim C18: removeDirective(T, K) leaves untouched every line whose
\* directive name merely starts with K (ssl against ssl_session_cache, gzip
\* against gzip_types, ssl_certificate against ssl_certificate_key).
C18_LongerNamesKept ==
    Len(cleanerTexts) >= 2 =>
        SelectSeq(LinesOf(cleanerTexts[2]), LAMBDA l : l = LongerLine(cleanerKey))
            = SelectSeq(LinesOf(cleanerTexts[1]), LAMBDA l : l = LongerLine(cleanerKey))

----------------------------------------------------------------------------
(* The security-header fixes, on the customDirectives of the server they   *)
(* are applied to.  Three engines add a header: the audit rules' fix       *)
(* (ConfigCleaner.smartAddHeader), FixService.addSecurityHeader and        *)
(* FixApplicator.addSecurityHeader.                                        *)

\* `add_header ${headerName} "${headerValue}" always;`
newHeaderDirective(headerName, headerValue) ==
    S.add_header_ \o headerName \o <<" ", "\"">> \o headerValue \o <<"\"">>
        \o S.always \o <<";">>

\* fixService.ts cleanDirectives for targets of the form `add_header NAME`:
\* /^\s*add_header\s+['"]?NAME['"]?\s+.*?;(\r?\n)?/gim for each target held,
\* then .replace(/\n{3,}/g, '\n\n').trim().  (The texts hold no \r.)
RECURSIVE FixService_cleanHeaders(_, _)
FixService_cleanHeaders(text, names) ==
    IF names = <<>> THEN text
    ELSE Bind(ReplaceAll(
                  <<Bol, Ws(0)>> \o Lit(S.add_header, TRUE) \o <<Ws(1), Quote>>
                      \o Lit(Head(names), TRUE)
                      \o <<Quote, Ws(1),
                           [Cls({"\n", "\r"}, TRUE, 0, -1) EXCEPT !.greedy = FALSE],
                           Cls({";"}, FALSE, 1, 1), Cls({"\n"}, FALSE, 0, 1)>>,
                  text, <<>>),
              LAMBDA t : FixService_cleanHeaders(t, Tail(names)))
FixService_cleanDirectives(configText, targets) ==
    IF Trim(configText) = <<>> THEN <<>>
    ELSE CollapseAndTrim(FixService_cleanHeaders(configText,
             SelectSeq(<<S.XFrameOptions, S.XContentTypeOptions, S.StrictTransportSecurity>>,
                       LAMBDA n : S.add_header_ \o n \in targets)))

\* FixService.addSecurityHeader: the customDirectives it gives the server.
FixService_addSecurityHeader(customDirectives, headerName, headerValue) ==
    IF RedirectText(customDirectives) THEN customDirectives
    ELSE Bind(FixService_cleanDirectives(customDirectives, {S.add_header_ \o headerName}),
              LAMBDA cleanedDirectives :
                  IF Trim(cleanedDirectives) # <<>>
                  THEN cleanedDirectives \o <<"\n">>
                           \o newHeaderDirective(headerName, headerValue)
                  ELSE newHeaderDirective(headerName, headerValue))

\* FixApplicator: new RegExp(`^\\s*add_header\\s+['"]?${escaped}['"]?\\s+[^;]*;?\\s*$`, 'gim')
FixApplicator_createAddHeaderPattern(headerName) ==
    <<Bol, Ws(0)>> \o Lit(S.add_header, TRUE) \o <<Ws(1), Quote>>
        \o Lit(headerName, TRUE)
        \o <<Quote, Ws(1), Cls({";"}, TRUE, 0, -1), Semi, Ws(0), Eol>>

\* FixApplicator.formatCleanedText
formatCleanedText(text) ==
    LET arr == Split(text, "\n")
        kept == SelectSeq([i \in 1..Len(arr) |-> [line |-> arr[i], i |-> i]],
                          LAMBDA e : \/ Trim(e.line) # <<>>
                                     \/ e.i > 1 /\ Trim(arr[e.i - 1]) # <<>>)
    IN  Trim(Join([i \in 1..Len(kept) |-> kept[i].line], <<"\n">>))

\* FixApplicator.cleanAddHeader
cleanAddHeader(text, headerName) ==
    IF Trim(text) = <<>> THEN <<>>
    ELSE formatCleanedText(
             ReplaceAll(FixApplicator_createAddHeaderPattern(headerName), text, <<>>))

\* FixApplicator.addSecurityHeader: the customDirectives it gives the server.
FixApplicator_addSecurityHeader(customDirectives, headerName, headerValue) ==
    IF RedirectText(customDirectives) THEN customDirectives
    ELSE Bind(cleanAddHeader(customDirectives, headerName),
              LAMBDA cleanedDirectives :
                  IF Trim(cleanedDirectives) # <<>>
                  THEN cleanedDirectives \o <<"\n">>
                           \o newHeaderDirective(headerName, headerValue)
                  ELSE newHeaderDirective(headerName, headerValue))

\* The fix of a security-header audit rule: the customDirectives it gives
\* the server it is applied to.
auditHeaderFix(customDirectives, headerName, headerValue) ==
    IF RedirectText(customDirectives) THEN customDirectives
    ELSE smartAddHeader(customDirectives, headerName, headerValue, TRUE)

MaxHeaderCalls == 3

HeaderRules == {"security-x-frame-options", "security-x-content-type", "security-hsts"}
HeaderNames == {headerOf(r).name : r \in HeaderRules}
headerValueOf(name) ==
    headerOf(CHOOSE r \in HeaderRules : headerOf(r).name = name).value

\* customDirectives before the first fix: none, another directive, the
\* header set by hand (bare and quoted name).
OldHeaderLine(name) == S.add_header_ \o name \o <<" ","D","E","N","Y",";">>
QuotedHeaderLine(name) == S.add_header_ \o <<"'">> \o name \o <<"'">> \o <<" ","\"","a","\"",";">>
HeaderTexts(name) ==
    {<<>>, K.other, OldHeaderLine(name),
     K.other \o <<"\n">> \o OldHeaderLine(name),
     QuotedHeaderLine(name) \o <<"\n">> \o K.other}

InitHeader ==
    /\ cleanerVia \in {"applyFix", "FixService", "FixApplicator"} /\ fixUpdate = <<>>
    /\ StoreOff
    /\ cleanerKey \in HeaderNames
    /\ cleanerTexts \in {<<t>> : t \in HeaderTexts(cleanerKey)}
    /\ FixOff
    /\ ParseOff
    /\ MatchOff

\* applyFix(config, ruleId, serverId) for a security-header rule
ApplyHeaderFix ==
    /\ cleanerVia = "applyFix"
    /\ Len(cleanerTexts) <= MaxHeaderCalls
    /\ cleanerTexts' =
           Append(cleanerTexts,
                  auditHeaderFix(cleanerTexts[Len(cleanerTexts)], cleanerKey,
                      headerValueOf(cleanerKey)))
    /\ UNCHANGED <<cleanerVia, cleanerKey, fixUpdate>>
    /\ UNCHANGED storeVars
    /\ UNCHANGED fixVars
    /\ UNCHANGED parseVars
    /\ UNCHANGED matchVars

\* FixService.fixXFrameOptions / fixXContentType / fixHSTS
FixServiceAddSecurityHeader ==
    /\ cleanerVia = "FixService"
    /\ Len(cleanerTexts) <= MaxHeaderCalls
    /\ cleanerTexts' =
           Append(cleanerTexts,
                  FixService_addSecurityHeader(cleanerTexts[Len(cleanerTexts)], cleanerKey,
                      headerValueOf(cleanerKey)))
    /\ UNCHANGED <<cleanerVia, cleanerKey, fixUpdate>>
    /\ UNCHANGED storeVars
    /\ UNCHANGED fixVars
    /\ UNCHANGED parseVars
    /\ UNCHANGED matchVars

\* FixApplicator.fixXFrameOptions / fixXContentType / fixHSTS
FixApplicatorAddSecurityHeader ==
    /\ cleanerVia = "FixApplicator"
    /\ Len(cleanerTexts) <= MaxHeaderCalls
    /\ cleanerTexts' =
           Append(cleanerTexts,
                  FixApplicator_addSecurityHeader(cleanerTexts[Len(cleanerTexts)], cleanerKey,
                      headerValueOf(cleanerKey)))
    /\ UNCHANGED <<cleanerVia, cleanerKey, fixUpdate>>
    /\ UNCHANGED storeVars
    /\ UNCHANGED fixVars
    /\ UNCHANGED parseVars
    /\ UNCHANGED matchVars

NextHeader ==
    ApplyHeaderFix \/ FixServiceAddSecurityHeader \/ FixApplicatorAddSecurityHeader

SpecHeader == InitHeader /\ [][NextHeader]_vars

\* The line sets the header: add_header NAME (bare or quoted) and a value.
IsHeaderLine(line, name) ==
    StartsWith(line, S.add_header) /\ hasAddHeader(line, name)

\* Claim C19: after a security-header fix has been applied any number of
\* times to a server, its customDirectives holds exactly one add_header line
\* for the header and no fragment of an earlier line: every line is the
\* directive the fix writes or a line the text held before the first fix.
C19_OneHeaderLine ==
    Len(cleanerTexts) >= 2 /\ cleanerVia \in {"applyFix", "FixService", "FixApplicator"} =>
        LET lines == LinesOf(cleanerTexts[Len(cleanerTexts)])
            given == LinesOf(cleanerTexts[1])
        IN  /\ Cardinality({i \in 1..Len(lines) : IsHeaderLine(lines[i], cleanerKey)}) = 1
            /\ \A i \in 1..Len(lines) :
                   \/ lines[i] = newHeaderDirective(cleanerKey, headerValueOf(cleanerKey))
                   \/ \E j \in 1..Len(given) : lines[i] = given[j]

----------------------------------------------------------------------------
(* applyFix as a process: called once on a configuration with a rule and a *)
(* node id, which may name no server of the configuration.                 *)

\* applyFix(config, ruleId, affectedNodeId): null (<<>>) for a rule that is
\* unknown or has no fix, otherwise <<update>>.  newId is the value of
\* uuidv4() for the location the hidden-files fix may create.
\* applyFix returning an empty update where the rule has no fix.
applyFixNeverNull(cfg, ruleId, affectedNodeId, newId) ==
    IF ruleId \in Range(auditRules) \ detectionOnly
    THEN <<fix(ruleId, cfg, IF affectedNodeId = null THEN "" ELSE affectedNodeId, newId)>>
    ELSE <<NoUpdate>>

applyFix(cfg, ruleId, affectedNodeId, newId) ==
    IF (\A i \in 1..Len(auditRules) : auditRules[i] # ruleId) \/ ruleId \in detectionOnly
    THEN <<>>
    ELSE <<fix(ruleId, cfg, IF affectedNodeId = null THEN "" ELSE affectedNodeId, newId)>>

\* Node ids given to applyFix: those of the servers, an id of no server, the
\* empty string and null.
NodeIds(cfg) == {cfg.servers[i].id : i \in 1..Len(cfg.servers)} \cup {"ghost", "", null}

InitApplyFix ==
    /\ config \in FixConfigs
    /\ uuid = 0 /\ pc = "idle" /\ hasChanges = FALSE /\ iterations = 0
    /\ last = NoOp /\ ops = 0
    /\ ParseOff
    /\ MatchOff
    /\ cleanerVia = "off" /\ cleanerKey = <<>> /\ cleanerTexts = <<>>
    /\ fixUpdate = <<>>
    /\ StoreOff

\* update = applyFix(config, ruleId, nodeId)
ApplyFix(ruleId, nodeId) ==
    /\ ops = 0
    /\ \E r \in {applyFix(config, ruleId, nodeId, uuidv4(uuid + 1))} :
           /\ fixUpdate' = r
           /\ uuid' = IF r # <<>> /\ "locations" \in DOMAIN r[1] THEN uuid + 1 ELSE uuid
    /\ last' = Done(ruleId, nodeId)
    /\ ops' = 1
    /\ UNCHANGED <<config, pc, hasChanges, iterations>>
    /\ UNCHANGED parseVars
    /\ UNCHANGED matchVars
    /\ UNCHANGED <<cleanerVia, cleanerKey, cleanerTexts>>
    /\ UNCHANGED storeVars

NextApplyFix ==
    \E ruleId \in Range(auditRules) \cup {"unknown-rule"} :
        \E nodeId \in NodeIds(config) : ApplyFix(ruleId, nodeId)

SpecApplyFix == InitApplyFix /\ [][NextApplyFix]_vars

\* applyFix has returned for a rule that has a fix and a node id that names
\* no server of the configuration.
GhostFix ==
    /\ ops = 1
    /\ last.op \in Range(auditRules) \ detectionOnly
    /\ \A i \in 1..Len(config.servers) : config.servers[i].id # last.target

\* Claim C20: for every rule that has a fix and every node id that names no
\* server of the configuration, applyFix returns an update that changes
\* nothing; the hidden-files fix adds no location whose serverId is that id.
C20_GhostFixChangesNothing ==
    GhostFix =>
        /\ fixUpdate # <<>>
        /\ Merge(config, fixUpdate[1]) = config
        /\ "locations" \in DOMAIN fixUpdate[1] =>
               \A i \in 1..Len(fixUpdate[1].locations) :
                   fixUpdate[1].locations[i].serverId # last.target

----------------------------------------------------------------------------
(* runAudit as a process: called once on a configuration.                  *)

InitAudit ==
    /\ config \in FixConfigs
    /\ uuid = 0 /\ pc = "idle" /\ hasChanges = FALSE /\ iterations = 0
    /\ last = NoOp /\ ops = 0
    /\ ParseOff
    /\ MatchOff
    /\ CleanerOff
    /\ StoreOff

\* result = runAudit(config)
RunAudit ==
    /\ auditResult = <<>>
    /\ auditResult' = <<runAudit(config)>>
    /\ UNCHANGED <<selectedNodeId, selectedNodeType>>
    /\ UNCHANGED fixVars
    /\ UNCHANGED parseVars
    /\ UNCHANGED matchVars
    /\ UNCHANGED cleanerVars

NextAudit == RunAudit

SpecAudit == InitAudit /\ [][NextAudit]_vars

\* The number of issues of the result with the given severity.
CountOf(issues, severity) ==
    Cardinality({i \in 1..Len(issues) : issues[i].severity = severity})

\* Claim C23: runAudit returns score = max(0, 100 - 20 critical - 10 warning
\* - 3 info) over the issues it returns, so 0 <= score <= 100; the grade is A
\* from 90, B from 75, C from 60, D from 40 and F below; passedRules is the
\* number of rules that produced no issue and never exceeds totalRules.
C23_ScoreAndGrade ==
    auditResult # <<>> =>
        LET r == auditResult[1]
            raw == 100 - 20 * CountOf(r.issues, "critical")
                       - 10 * CountOf(r.issues, "warning") - 3 * CountOf(r.issues, "info")
        IN  /\ r.score = IF raw < 0 THEN 0 ELSE raw
            /\ 0 <= r.score /\ r.score <= 100
            /\ (r.grade = "A") = (r.score >= 90)
            /\ (r.grade = "B") = (75 <= r.score /\ r.score < 90)
            /\ (r.grade = "C") = (60 <= r.score /\ r.score < 75)
            /\ (r.grade = "D") = (40 <= r.score /\ r.score < 60)
            /\ (r.grade = "F") = (r.score < 40)
            /\ r.passedRules =
                   Cardinality({k \in 1..Len(auditRules) :
                       \A i \in 1..Len(r.issues) : r.issues[i].ruleId # auditRules[k]})
            /\ r.passedRules <= r.totalRules

\* The deductions pass 100: the score is held at 0 and the grade is F.
C23_Witness ==
    /\ auditResult # <<>>
    /\ auditResult[1].score = 0 /\ auditResult[1].grade = "F"
    /\ 20 * CountOf(auditResult[1].issues, "critical") > 100

\* Claim C24: an issue of runAudit has canAutoFix = true exactly when its
\* rule defines a fix; the rules without a fix are config-empty-upstream and
\* config-missing-server-name, and applyFix returns null exactly for an
\* unknown rule id and for these two.
C24_FixExactlyWhereDefined ==
    ops = 1 /\ last.op \in Range(auditRules) \cup {"unknown-rule"} =>
        /\ (fixUpdate = <<>>) =
               (last.op \in {"unknown-rule", "config-empty-upstream",
                             "config-missing-server-name"})
        /\ \A issues \in {auditIssues(config)} : \A i \in 1..Len(issues) :
               issues[i].canAutoFix =
                   (issues[i].ruleId \notin {"config-empty-upstream",
                                             "config-missing-server-name"})

\* applyFix has returned null for a rule without a fix, on a configuration
\* for which runAudit reports an issue of that rule.
C24_Witness ==
    /\ ops = 1 /\ last.op = "config-missing-server-name" /\ fixUpdate = <<>>
    /\ \E issues \in {auditIssues(config)} : \E i \in 1..Len(issues) :
           issues[i].ruleId = last.op /\ ~issues[i].canAutoFix

\* The issues runAudit reports for the upstream with the given id.
EmptyUpstreamIssues(cfg, id) ==
    SelectSeq(auditIssues(cfg),
              LAMBDA i : i.ruleId = "config-empty-upstream" /\ i.affectedNodeId = id)

\* Claim C25: runAudit returns exactly one issue with ruleId
\* config-empty-upstream, severity critical and canAutoFix = false for each
\* upstream without servers and none for an upstream with a server; the
\* issue is still reported after applyAllFixes.
C25_EmptyUpstreamReported ==
    /\ \A k \in 1..Len(config.upstreams) :
           \A found \in {EmptyUpstreamIssues(config, config.upstreams[k].id)} :
               IF Len(config.upstreams[k].servers) = 0
               THEN /\ Len(found) = 1
                    /\ found[1].severity = "critical" /\ ~found[1].canAutoFix
               ELSE found = <<>>
    /\ Returned =>
           \A k \in 1..Len(last.before.upstreams) :
               Len(last.before.upstreams[k].servers) = 0 =>
                   EmptyUpstreamIssues(config, last.before.upstreams[k].id) # <<>>

\* applyAllFixes has returned a changed configuration with one upstream
\* without servers and one with a server.
C25_Witness ==
    /\ Returned /\ config # last.before
    /\ Len(config.upstreams) = 2
    /\ Len(config.upstreams[1].servers) = 1 /\ Len(config.upstreams[2].servers) = 0

\* The rules from which a redirect server is exempt.
headerInjectionRules ==
    {"security-x-frame-options", "security-x-content-type", "security-hsts",
     "security-hidden-files"}

\* applyFix has returned for one of these rules and the id of a redirect
\* server of the configuration.
RedirectFix ==
    /\ ops = 1
    /\ last.op \in headerInjectionRules
    /\ \E i \in 1..Len(config.servers) :
           config.servers[i].id = last.target /\ isRedirectServer(config.servers[i])

\* Claim C22: a server whose customDirectives holds a line
\* `return 301|302|307|308 ...` gets no X-Frame-Options, X-Content-Type-Options,
\* HSTS or hidden-files issue from runAudit, and the fixes of these rules
\* return an empty update when given its id: no add_header line and no
\* location is added to it.
C22_RedirectExempt ==
    /\ \A issues \in {auditIssues(config)} : \A i \in 1..Len(issues) :
           issues[i].ruleId \in headerInjectionRules =>
               \A k \in 1..Len(config.servers) :
                   config.servers[k].id = issues[i].affectedNodeId =>
                       ~isRedirectServer(config.servers[k])
    /\ RedirectFix =>
           /\ fixUpdate = <<NoUpdate>>
           /\ \A merged \in {Merge(config, fixUpdate[1])} :
                  /\ merged.servers = config.servers
                  /\ \A i \in 1..Len(merged.locations) :
                         merged.locations[i].serverId = last.target =>
                             \E j \in 1..Len(config.locations) :
                                 config.locations[j] = merged.locations[i]

----------------------------------------------------------------------------
(* ConfigProvider (contexts/ConfigContext): the config store and the      *)
(* selection, with the canvas's onConnect and the two fix engines applied  *)
(* to the stored config.                                                   *)

MaxStoreOps == 4     \* operations on the store run one after the other
FirstStoreId == 20   \* uuidv4 values below it are those a parse has drawn

\* createDefaultServer() of types/nginx.ts, with the id given.
createDefaultServer(id) ==
    [id |-> id, name |-> <<"N","e","w"," ","S","e","r","v","e","r">>,
     listen |-> [port |-> 80, defaultServer |-> FALSE, http2 |-> FALSE],
     serverName |-> <<"e","x","a","m","p","l","e",".","c","o","m">>,
     ssl |-> defaultSSLConfig,
     root |-> "/var/www/html", index |-> <<"index.html", "index.htm">>,
     customDirectives |-> <<>>]

\* createDefaultUpstream() of types/nginx.ts, with the two ids given.
createDefaultUpstream(id, serverId) ==
    [id |-> id, name |-> <<"b","a","c","k","e","n","d">>, strategy |-> "round_robin",
     servers |-> <<[id |-> serverId, address |-> "127.0.0.1", port |-> 3000,
                    weight |-> 1, maxFails |-> 3, failTimeout |-> 30,
                    backup |-> FALSE, down |-> FALSE]>>,
     customDirectives |-> <<>>]

defaultNginxConfig ==
    [global |-> defaultGlobalConfig, events |-> defaultEventsConfig,
     http |-> defaultHttpConfig, upstreams |-> <<>>, servers |-> <<>>,
     locations |-> <<>>]

\* const { rawConfig, ...rest } = prev
withoutRawConfig(prev) == [k \in DOMAIN prev \ {"rawConfig"} |-> prev[k]]

\* The nodes of the canvas: one per server, location and upstream.
nodesOf(cfg) ==
    {[id |-> cfg.servers[i].id, type |-> "server"] : i \in 1..Len(cfg.servers)}
        \cup {[id |-> cfg.locations[i].id, type |-> "location"] : i \in 1..Len(cfg.locations)}
        \cup {[id |-> cfg.upstreams[i].id, type |-> "upstream"] : i \in 1..Len(cfg.upstreams)}

\* Configuration texts whose parse is imported.
StoreTexts ==
    <<<<"u","p","s","t","r","e","a","m"," ","b"," ","{"," ","s","e","r","v","e","r"," ","x",";"," ","}","\n","s","e","r","v","e","r"," ","{"," ","l","i","s","t","e","n"," ","4","4","3"," ","s","s","l",";"," ","s","e","r","v","e","r","_","n","a","m","e"," ","a",";"," ","l","o","c","a","t","i","o","n"," ","/"," ","{"," ","p","r","o","x","y","_","p","a","s","s"," ","h","t","t","p",":","/","/","b",";"," ","}"," ","}","\n","s","e","r","v","e","r"," ","{"," ","s","e","r","v","e","r","_","n","a","m","e"," ","a",";"," ","l","o","c","a","t","i","o","n"," ","/","x"," ","{"," ","p","r","o","x","y","_","p","a","s","s"," ","h","t","t","p",":","/","/","c",";"," ","}"," ","}">>,
      <<"s","e","r","v","e","r"," ","{"," ","s","e","r","v","e","r","_","n","a","m","e"," ","a",";"," ","l","o","c","a","t","i","o","n"," ","/"," ","{"," ","}"," ","}","\n","s","e","r","v","e","r"," ","{"," ","s","e","r","v","e","r","_","n","a","m","e"," ","a",";"," ","l","o","c","a","t","i","o","n"," ","/","y"," ","{"," ","}"," ","}">>>>

\* The store after construction, with the sidebar parsing a text it will
\* hand to importConfig.  The parse runs to its end before the next
\* operation on the store.
InitStore ==
    /\ config = defaultNginxConfig
    /\ uuid = FirstStoreId /\ pc = "idle" /\ hasChanges = FALSE /\ iterations = 0
    /\ last = NoOp /\ ops = 0
    /\ input \in Range(StoreTexts)
    /\ lex = lexStart /\ tokens = <<>> /\ pos = 0 /\ ast = emptyRoot
    /\ status = "lex" /\ rootIters = 0 /\ thrown = <<>> /\ parsed = <<>>
    /\ MatchOff
    /\ CleanerOff
    /\ StoreOff

\* No handler is running: the parse has returned its config.
StoreIdle == pc = "idle" /\ status = "ok"

\* selectNode(id, type) on a node of the canvas, or selectNode(null, null).
SelectNode(id, type) ==
    /\ StoreIdle /\ ops < MaxStoreOps
    /\ selectedNodeId' = id
    /\ selectedNodeType' = type
    /\ last' = Done("selectNode", id)
    /\ ops' = ops + 1
    /\ UNCHANGED <<config, uuid, pc, hasChanges, iterations, auditResult>>
    /\ UNCHANGED parseVars
    /\ UNCHANGED matchVars
    /\ UNCHANGED cleanerVars

\* importConfig(newConfig), with the config the parse has returned.
ImportConfig(newConfig) ==
    /\ StoreIdle /\ ops < MaxStoreOps
    /\ config' = newConfig
    /\ selectedNodeId' = null
    /\ selectedNodeType' = null
    /\ last' = Done("importConfig", "")
    /\ ops' = ops + 1
    /\ UNCHANGED <<uuid, pc, hasChanges, iterations, auditResult>>
    /\ UNCHANGED parseVars
    /\ UNCHANGED matchVars
    /\ UNCHANGED cleanerVars

\* addServer()
AddServer ==
    /\ StoreIdle /\ ops < MaxStoreOps
    /\ config' = [withoutRawConfig(config) EXCEPT
                     !.servers = Append(@, createDefaultServer(uuidv4(uuid + 1)))]
    /\ uuid' = uuid + 1
    /\ last' = Done("addServer", "")
    /\ ops' = ops + 1
    /\ UNCHANGED <<pc, hasChanges, iterations>>
    /\ UNCHANGED storeVars
    /\ UNCHANGED parseVars
    /\ UNCHANGED matchVars
    /\ UNCHANGED cleanerVars

\* A deleteServer that leaves the locations as they are.
deleteServerOnly(cfg, id) ==
    [withoutRawConfig(cfg) EXCEPT !.servers = SelectSeq(@, LAMBDA srv : srv.id # id)]

\* The config deleteServer(id) stores.
deleteServer(cfg, id) ==
    [withoutRawConfig(cfg) EXCEPT
        !.servers = SelectSeq(@, LAMBDA srv : srv.id # id),
        !.locations = SelectSeq(@, LAMBDA l : l.serverId # id)]

\* deleteServer(id)
DeleteServer(id) ==
    /\ StoreIdle /\ ops < MaxStoreOps
    /\ config' = deleteServer(config, id)
    /\ IF selectedNodeId = id
       THEN selectedNodeId' = null /\ selectedNodeType' = null
       ELSE UNCHANGED <<selectedNodeId, selectedNodeType>>
    /\ last' = Done("deleteServer", id)
    /\ ops' = ops + 1
    /\ UNCHANGED <<uuid, pc, hasChanges, iterations, auditResult>>
    /\ UNCHANGED parseVars
    /\ UNCHANGED matchVars
    /\ UNCHANGED cleanerVars

\* addLocation(serverId)
AddLocation(serverId) ==
    /\ StoreIdle /\ ops < MaxStoreOps
    /\ config' = [withoutRawConfig(config) EXCEPT
                     !.locations = Append(@, createDefaultLocation(uuidv4(uuid + 1),
                                                                   serverId))]
    /\ uuid' = uuid + 1
    /\ last' = Done("addLocation", serverId)
    /\ ops' = ops + 1
    /\ UNCHANGED <<pc, hasChanges, iterations>>
    /\ UNCHANGED storeVars
    /\ UNCHANGED parseVars
    /\ UNCHANGED matchVars
    /\ UNCHANGED cleanerVars

\* updateLocation(id, updates)
updateLocation(cfg, id, updates) ==
    [withoutRawConfig(cfg) EXCEPT
        !.locations = Map(@, LAMBDA l : IF l.id = id THEN Merge(l, updates) ELSE l)]

\* deleteLocation(id)
DeleteLocation(id) ==
    /\ StoreIdle /\ ops < MaxStoreOps
    /\ config' = [withoutRawConfig(config) EXCEPT
                     !.locations = SelectSeq(@, LAMBDA l : l.id # id)]
    /\ IF selectedNodeId = id
       THEN selectedNodeId' = null /\ selectedNodeType' = null
       ELSE UNCHANGED <<selectedNodeId, selectedNodeType>>
    /\ last' = Done("deleteLocation", id)
    /\ ops' = ops + 1
    /\ UNCHANGED <<uuid, pc, hasChanges, iterations, auditResult>>
    /\ UNCHANGED parseVars
    /\ UNCHANGED matchVars
    /\ UNCHANGED cleanerVars

\* addUpstream()
AddUpstream ==
    /\ StoreIdle /\ ops < MaxStoreOps
    /\ config' = [withoutRawConfig(config) EXCEPT
                     !.upstreams = Append(@, createDefaultUpstream(uuidv4(uuid + 1),
                                                                   uuidv4(uuid + 2)))]
    /\ uuid' = uuid + 2
    /\ last' = Done("addUpstream", "")
    /\ ops' = ops + 1
    /\ UNCHANGED <<pc, hasChanges, iterations>>
    /\ UNCHANGED storeVars
    /\ UNCHANGED parseVars
    /\ UNCHANGED matchVars
    /\ UNCHANGED cleanerVars

\* A deleteUpstream that leaves the locations as they are.
deleteUpstreamOnly(cfg, id) ==
    [withoutRawConfig(cfg) EXCEPT !.upstreams = SelectSeq(@, LAMBDA u : u.id # id)]

\* The config deleteUpstream(id) stores.
deleteUpstream(cfg, id) ==
    [withoutRawConfig(cfg) EXCEPT
        !.upstreams = SelectSeq(@, LAMBDA u : u.id # id),
        !.locations = Map(@, LAMBDA l : IF l.upstreamId = id
                                        THEN [l EXCEPT !.upstreamId = null,
                                                       !.proxyPass = <<>>]
                                        ELSE l)]

\* deleteUpstream(id)
DeleteUpstream(id) ==
    /\ StoreIdle /\ ops < MaxStoreOps
    /\ config' = deleteUpstream(config, id)
    /\ IF selectedNodeId = id
       THEN selectedNodeId' = null /\ selectedNodeType' = null
       ELSE UNCHANGED <<selectedNodeId, selectedNodeType>>
    /\ last' = Done("deleteUpstream", id)
    /\ ops' = ops + 1
    /\ UNCHANGED <<uuid, pc, hasChanges, iterations, auditResult>>
    /\ UNCHANGED parseVars
    /\ UNCHANGED matchVars
    /\ UNCHANGED cleanerVars

\* onConnect({ source, target }) of the canvas, between two of its nodes.
OnConnect(sourceNode, targetNode) ==
    /\ StoreIdle /\ ops < MaxStoreOps
    /\ config' =
           IF sourceNode.type = "server" /\ targetNode.type = "location"
           THEN updateLocation(config, targetNode.id, Partial1("serverId", sourceNode.id))
           ELSE IF sourceNode.type = "location" /\ targetNode.type = "upstream"
           THEN updateLocation(config, sourceNode.id, Partial1("upstreamId", targetNode.id))
           ELSE config
    /\ last' = Done("onConnect", sourceNode.id)
    /\ ops' = ops + 1
    /\ UNCHANGED <<uuid, pc, hasChanges, iterations>>
    /\ UNCHANGED storeVars
    /\ UNCHANGED parseVars
    /\ UNCHANGED matchVars
    /\ UNCHANGED cleanerVars

NextStore ==
    \/ \E node \in nodesOf(config) \cup {[id |-> null, type |-> null]} :
           SelectNode(node.id, node.type)
    \/ ImportConfig(parsed)
    \/ AddServer
    \/ \E node \in nodesOf(config) : node.type = "server" /\ DeleteServer(node.id)
    \/ \E node \in nodesOf(config) : node.type = "server" /\ AddLocation(node.id)
    \/ \E node \in nodesOf(config) : node.type = "location" /\ DeleteLocation(node.id)
    \/ AddUpstream
    \/ \E node \in nodesOf(config) : node.type = "upstream" /\ DeleteUpstream(node.id)
    \/ \E sourceNode \in nodesOf(config) : \E targetNode \in nodesOf(config) :
           OnConnect(sourceNode, targetNode)

SpecStore == InitStore /\ [][NextParse \/ NextStore]_vars

\* AutoFixService.applyForceHttps(config, sid) on the stored config; the
\* result is stored.
StoreApplyForceHttps(sid) ==
    /\ StoreIdle /\ ops < MaxStoreOps
    /\ \E r \in {applyForceHttps(config, sid, uuid)} :
           config' = r.config /\ uuid' = r.uuid
    /\ last' = Done("applyForceHttps", sid)
    /\ ops' = ops + 1
    /\ UNCHANGED <<pc, hasChanges, iterations>>
    /\ UNCHANGED storeVars
    /\ UNCHANGED parseVars
    /\ UNCHANGED matchVars
    /\ UNCHANGED cleanerVars

\* applyAllFixes(config) of auditService on the stored config, up to the
\* while loop (lines 731-743); LoopPass and LoopExit run the loop, and the
\* config it returns is stored.
StoreApplyAllFixesStart ==
    /\ StoreIdle /\ ops < MaxStoreOps
    /\ \E r \in {AutoFixService_applyAllFixes(config, uuid)} :
           config' = r.config /\ uuid' = r.uuid
    /\ hasChanges' = TRUE /\ iterations' = 0
    /\ pc' = "loop"
    /\ last' = Done("applyAllFixes", "")
    /\ ops' = ops + 1
    /\ UNCHANGED storeVars
    /\ UNCHANGED parseVars
    /\ UNCHANGED matchVars
    /\ UNCHANGED cleanerVars

\* The store edited by hand and by the two fix engines.
NextEdit ==
    \/ AddServer
    \/ \E node \in nodesOf(config) : node.type = "server" /\ DeleteServer(node.id)
    \/ \E node \in nodesOf(config) : node.type = "server" /\ AddLocation(node.id)
    \/ \E node \in nodesOf(config) : node.type = "location" /\ DeleteLocation(node.id)
    \/ \E node \in nodesOf(config) : node.type = "server" /\ StoreApplyForceHttps(node.id)
    \/ StoreApplyAllFixesStart
    \/ LoopPass
    \/ LoopExit

SpecEdit == InitStore /\ [][NextParse \/ ImportConfig(parsed) \/ NextEdit]_vars

----------------------------------------------------------------------------
(* The store: properties                                                   *)

\* The ids of the servers and of the upstreams of a config.
serverIdsOf(cfg) == {cfg.servers[i].id : i \in 1..Len(cfg.servers)}
upstreamIdsOf(cfg) == {cfg.upstreams[i].id : i \in 1..Len(cfg.upstreams)}

\* Claim C21: in every state reachable from the empty or a parsed config by
\* addServer, deleteServer, addLocation for an existing server,
\* deleteLocation, applyForceHttps and applyAllFixes, every location's
\* serverId is the id of a server of config.servers: a server that is
\* deleted, hijacked or removed as a port-80 duplicate loses its locations
\* in the same step.
C21_LocationsOwned ==
    /\ \A i \in 1..Len(config.locations) :
           config.locations[i].serverId \in serverIdsOf(config)
    /\ last.op \in {"deleteServer", "applyForceHttps", "applyAllFixes"} =>
           \A i \in 1..Len(last.before.servers) :
               \A was \in {last.before.servers[i]} :
                   (\/ was.id \notin serverIdsOf(config)
                    \/ \E k \in 1..Len(config.servers) :
                           /\ config.servers[k].id = was.id
                           /\ ~isRedirectServer(was)
                           /\ isRedirectServer(config.servers[k]))
                   => (\A j \in 1..Len(config.locations) :
                           config.locations[j].serverId # was.id)

\* applyForceHttps has just removed a server that owned a location, and a
\* location of another server is left.
C21_Witness ==
    /\ last.op = "applyForceHttps"
    /\ \E i \in 1..Len(last.before.locations) :
           last.before.locations[i].serverId \notin serverIdsOf(config)
    /\ config.locations # <<>>

\* Claim C29: in every state reachable by importConfig of a parsed config,
\* addUpstream, deleteUpstream, connecting a location to an existing
\* upstream, deleteLocation and deleteServer, every non-null
\* location.upstreamId is the id of an upstream of config.upstreams;
\* deleteUpstream(u) sets upstreamId to null and proxyPass to '' on exactly
\* the locations that referenced u and leaves every other location and
\* every server unchanged.
C29_UpstreamsLinked ==
    /\ \A i \in 1..Len(config.locations) :
           config.locations[i].upstreamId # null =>
               config.locations[i].upstreamId \in upstreamIdsOf(config)
    /\ last.op = "deleteUpstream" =>
           /\ config.servers = last.before.servers
           /\ Len(config.locations) = Len(last.before.locations)
           /\ \A i \in 1..Len(config.locations) :
                  \A was \in {last.before.locations[i]} :
                      config.locations[i] =
                          IF was.upstreamId = last.target
                          THEN [was EXCEPT !.upstreamId = null, !.proxyPass = <<>>]
                          ELSE was

\* deleteUpstream has removed an upstream that one location referenced and
\* another did not.
C29_Witness ==
    /\ last.op = "deleteUpstream"
    /\ \E i \in 1..Len(last.before.locations) :
           last.before.locations[i].upstreamId = last.target
    /\ \E i \in 1..Len(last.before.locations) :
           last.before.locations[i].upstreamId # last.target
    /\ last.target \notin upstreamIdsOf(config)

\* Claim C30: in every state reachable by selectNode on an existing node,
\* addServer, addLocation, addUpstream, deleteServer, deleteLocation,
\* deleteUpstream and importConfig, selectedNodeId is null or the id of a
\* server, location or upstream of the config, also after deleteServer
\* has removed the selected location together with its server.
C30_SelectionExists ==
    selectedNodeId # null => \E node \in nodesOf(config) : node.id = selectedNodeId

----------------------------------------------------------------------------
(* The lexer's positions                                                   *)

MaxLexLen == 4       \* length of the inputs given to tokenize

LexAlphabet == {"a", " ", ";", "\"", "#", "\n", "\r"}
LexInputs == UNION {[1..n -> LexAlphabet] : n \in 0..MaxLexLen}

InitLex ==
    /\ input \in LexInputs
    /\ lex = lexStart /\ tokens = <<>> /\ pos = 0 /\ ast = emptyRoot
    /\ status = "lex" /\ rootIters = 0 /\ thrown = <<>> /\ parsed = <<>>
    /\ FixOff
    /\ MatchOff
    /\ CleanerOff
    /\ StoreOff

SpecLex == InitLex /\ [][NextParse]_vars

\* The 1-based line and column of the character at index p of the text.
LineOf(chars, p) == 1 + Cardinality({k \in 1..(p - 1) : chars[k] = "\n"})
ColumnOf(chars, p) == p - Max({0} \cup {k \in 1..(p - 1) : chars[k] = "\n"})

\* An iteration of tokenize's loop that pushes a token: the token starts at
\* the character the iteration starts at.
TokenPushed == status = "lex" /\ Len(lex'.tokens) = Len(lex.tokens) + 1

\* Claim C28: every token that tokenize emits carries the 1-based line and
\* column of its first character in the input, also a quoted string that
\* spans several lines (the line of its opening quote) and a token after a
\* comment or a carriage return.
C28_TokenPositions ==
    [][TokenPushed =>
           /\ lex'.tokens[Len(lex'.tokens)].line = LineOf(input, lex.pos)
           /\ lex'.tokens[Len(lex'.tokens)].column = ColumnOf(input, lex.pos)]_vars

----------------------------------------------------------------------------
(* The listen directive                                                    *)

MaxListenArgs == 3   \* arguments of the listen directive

ListenTokens ==
    {<<"4","4","3">>,
     <<"s","s","l">>,
     <<"S","S","L">>,
     <<"h","t","t","p","2">>,
     <<"H","T","T","P","2">>,
     <<"d","e","f","a","u","l","t","_","s","e","r","v","e","r">>,
     <<"D","e","f","a","u","l","t","_","S","e","r","v","e","r">>,
     <<"r","e","u","s","e","p","o","r","t">>}
ListenArgs == UNION {[1..n -> ListenTokens] : n \in 0..MaxListenArgs}

\* A server block with one listen directive of the given arguments.
ListenText(args) ==
    I.serverOpen \o <<"l","i","s","t","e","n">> \o
        FoldLeft(LAMBDA acc, arg : acc \o <<" ">> \o arg, <<>>, args) \o <<";">> \o I.close

InitListen ==
    /\ input \in {ListenText(args) : args \in ListenArgs}
    /\ lex = lexStart /\ tokens = <<>> /\ pos = 0 /\ ast = emptyRoot
    /\ status = "lex" /\ rootIters = 0 /\ thrown = <<>> /\ parsed = <<>>
    /\ FixOff
    /\ MatchOff
    /\ CleanerOff
    /\ StoreOff

SpecListen == InitListen /\ [][NextParse]_vars

\* The argument in lower case.
LowerCase(arg) == [k \in 1..Len(arg) |-> Lower(arg[k])]

\* One of the arguments is the given word, in any letter case.
Occurs(args, word) == \E k \in 1..Len(args) : Str(LowerCase(args[k])) = word

\* Claim C27: the flags defaultServer, http2 and ssl of a listen directive
\* are set exactly when the tokens default_server, http2 and ssl occur
\* among its arguments, in any position and in any letter case; tokens
\* that are not recognized change neither the flags nor the port.
C27_ListenFlags ==
    status = "ok" =>
        \A args \in ListenArgs : input = ListenText(args) =>
            \A server \in {parsed.servers[1]} :
                /\ server.listen.defaultServer = Occurs(args, "default_server")
                /\ server.listen.http2 = Occurs(args, "http2")
                /\ server.ssl.enabled = Occurs(args, "ssl")
                /\ server.listen.port = IF Occurs(args, "443") THEN 443 ELSE 80

----------------------------------------------------------------------------
(* Locations linked to upstreams                                           *)

MaxUpstreamBlocks == 2   \* upstream blocks before and after the server block

LinkWords ==
    [upstreamB |-> <<"u","p","s","t","r","e","a","m"," ","b"," ","{"," ","s","e","r","v","e","r"," ","x",";"," ","}","\n">>,
     upstreamC |-> <<"u","p","s","t","r","e","a","m"," ","c"," ","{"," ","s","e","r","v","e","r"," ","y",";"," ","}","\n">>,
     serverOpen |-> <<"s","e","r","v","e","r"," ","{"," ","l","o","c","a","t","i","o","n"," ","/"," ","{"," ">>,
     proxyPass |-> <<"p","r","o","x","y","_","p","a","s","s"," ">>,
     serverClose |-> <<" ","}"," ","l","o","c","a","t","i","o","n"," ","/","y"," ","{"," ","p","r","o","x","y","_","p","a","s","s"," ","h","t","t","p",":","/","/","c",";"," ","}"," ","}","\n">>,
     http |-> <<"h","t","t","p",":","/","/">>,
     toB |-> <<"h","t","t","p",":","/","/","b">>,
     toBPath |-> <<"h","t","t","p",":","/","/","b","/","x">>,
     toC |-> <<"h","t","t","p",":","/","/","c">>,
     toD |-> <<"h","t","t","p",":","/","/","d">>,
     tlsB |-> <<"h","t","t","p","s",":","/","/","b">>]

\* The upstream blocks written before or after the server block.
UpstreamBlocks ==
    UNION {[1..n -> {LinkWords.upstreamB, LinkWords.upstreamC}] : n \in 0..MaxUpstreamBlocks}
ProxyTargets == {<<>>, LinkWords.toB, LinkWords.toBPath, LinkWords.toC, LinkWords.toD, LinkWords.tlsB}
Layouts == {"root", "http", "serverInHttp", "upstreamsInHttp"}

Flat(blocks) == FoldLeft(LAMBDA acc, b : acc \o b, <<>>, blocks)
InHttp(chars) == I.httpOpen \o chars \o I.close \o <<"\n">>

\* The server block whose first location passes to the target.
ServerText(target) ==
    LinkWords.serverOpen \o (IF target = <<>> THEN <<>> ELSE LinkWords.proxyPass \o target \o <<";">>)
        \o LinkWords.serverClose

\* The configuration text of a layout.
LinkText(layout, before, target, after) ==
    CASE layout = "root" -> Flat(before) \o ServerText(target) \o Flat(after)
      [] layout = "http" -> InHttp(Flat(before) \o ServerText(target) \o Flat(after))
      [] layout = "serverInHttp" ->
            Flat(before) \o InHttp(ServerText(target)) \o Flat(after)
      [] layout = "upstreamsInHttp" ->
            InHttp(Flat(before)) \o ServerText(target) \o InHttp(Flat(after))

LinkInputs ==
    {LinkText(layout, before, target, after) :
        layout \in Layouts, before \in UpstreamBlocks, target \in ProxyTargets,
        after \in UpstreamBlocks}

InitLink ==
    /\ input \in LinkInputs
    /\ lex = lexStart /\ tokens = <<>> /\ pos = 0 /\ ast = emptyRoot
    /\ status = "lex" /\ rootIters = 0 /\ thrown = <<>> /\ parsed = <<>>
    /\ FixOff
    /\ MatchOff
    /\ CleanerOff
    /\ StoreOff

SpecLink == InitLink /\ [][NextParse]_vars

\* The <name> of a proxy_pass value http://<name> or http://<name>/...: a
\* sequence of length 0 or 1.
ProxyName(proxyPass) ==
    IF ~StartsWith(proxyPass, LinkWords.http) \/ Len(proxyPass) = Len(LinkWords.http) THEN <<>>
    ELSE <<SubSeq(proxyPass, Len(LinkWords.http) + 1,
                  Len(LinkWords.http) + RunWhile(proxyPass, Len(LinkWords.http) + 1, LAMBDA c : c # "/"))>>

\* The ids of the upstreams of the config that have the given name.
UpstreamsNamed(cfg, name) ==
    {cfg.upstreams[k].id : k \in {j \in 1..Len(cfg.upstreams) : cfg.upstreams[j].name = name}}

\* Claim C26: after parseNginxConfig every location's upstreamId is the id
\* of the upstream named by its proxy_pass http://<name> whenever such an
\* upstream is declared anywhere in the input, before or after the server
\* block, inside http or at root, and null otherwise; a non-null
\* upstreamId is the id of an upstream of config.upstreams.
C26_LinkedByName ==
    status = "ok" =>
        /\ \A layout \in Layouts, before \in UpstreamBlocks, after \in UpstreamBlocks,
              target \in ProxyTargets :
               input = LinkText(layout, before, target, after) =>
                   /\ Len(parsed.upstreams) = Len(before) + Len(after)
                   /\ Len(parsed.locations) = 2
                   /\ parsed.locations[1].proxyPass = target
        /\ \A i \in 1..Len(parsed.locations) :
               \A location \in {parsed.locations[i]} :
                   \A name \in {ProxyName(location.proxyPass)} :
                       /\ IF name # <<>> /\ UpstreamsNamed(parsed, name[1]) # {}
                          THEN location.upstreamId \in UpstreamsNamed(parsed, name[1])
                          ELSE location.upstreamId = null
                       /\ location.upstreamId # null =>
                              location.upstreamId \in upstreamIdsOf(parsed)

\* A location is linked to an upstream declared after its server block,
\* inside http, and the other location of the server is linked to none.
C26_Witness ==
    /\ status = "ok"
    /\ input = LinkText("http", <<>>, LinkWords.toBPath, <<LinkWords.upstreamB>>)
    /\ parsed.locations[1].upstreamId = parsed.upstreams[1].id
    /\ parsed.locations[2].upstreamId = null

=============================================================================
